---------------------------- MODULE Spec2Model ----------------------------
(***************************************************************************)
(* Model of the Cloud API client of the admin panel                        *)
(* (backend/app/services/cloud_api_client.py): the APIResult carrier, the  *)
(* request executor CloudAPIClient._make_request with its retry loop and   *)
(* status classification, the catalogue of resource operations and the     *)
(* agent-config download.  The Cloud API is the environment: every attempt *)
(* it answers with a response, or the transport raises an exception.       *)
(* The admin-ui router (backend/app/admin_ui/router.py) is modelled on top *)
(* of it: handle_api_error and the list, create, update and delete routes, *)
(* whose client calls return any Result the executor can return.           *)
(* The incidents API (backend/app/api/incidents.py) with its table is      *)
(* modelled beside them.                                                   *)
(***************************************************************************)
EXTENDS Integers, Sequences, FiniteSets, TLC

VARIABLES
    self,       \* the CloudAPIClient instance (its attributes)
    call,       \* arguments of the operation in progress / last finished
    pc,         \* "idle" | "loop" | "download" | "returned" | "raised"
    attempts,   \* local `attempts` of _make_request
    attempt,    \* loop variable of `for attempt in range(attempts)`
    log,        \* outbound HTTP attempts of the current operation, in order
    sleeps,     \* number of time.sleep(1) calls of the current operation
    result,     \* the APIResult returned by the operation (None before)
    returns,    \* number of values returned by the current operation
    prev,       \* an earlier finished operation, remembered for comparison
    ui_request, \* the admin-ui HTTP request being answered / last answered
    invoked,    \* client operations the route handler invoked, in order
    ui_response, \* the HTTP response of the route (None before)
    banner,     \* last application of handle_api_error: arguments and value
    db,         \* rows of the incidents table, in order of insertion
    now,        \* the clock read by datetime.utcnow()
    api_request, \* the incidents request being answered / last answered
    api_response \* status code of its response, and the row it returns

\* state of the Cloud API client and of the observer of its operations
clientVars == <<self, call, pc, attempts, attempt, log, sleeps, result, returns>>
\* state of the admin-ui router
uiVars == <<ui_request, invoked, ui_response, banner>>
\* state of the incidents API
incidentVars == <<db, now, api_request, api_response>>

vars == <<self, call, pc, attempts, attempt, log, sleeps, result, returns, prev,
          ui_request, invoked, ui_response, banner,
          db, now, api_request, api_response>>

---------------------------------------------------------------------------
(* Bounds of the model *)

\* largest max_retries a client is constructed with (the default 2 included)
MaxRetriesBound == 2
\* how far below zero max_retries may be configured
NegRetriesBound == 2
\* rows the incidents table may hold
MaxIncidents == 2
\* last reading of the clock: every incidents request is answered at a
\* later time than the one before
MaxClock == 4

---------------------------------------------------------------------------
(* Python values: every value carries its type tag in field k *)

None == [k |-> "None"]
PyStr(s) == [k |-> "str", v |-> s]
PyInt(i) == [k |-> "int", v |-> i]
PyList(items) == [k |-> "list", v |-> items]
PyDict(fields) == [k |-> "dict", v |-> fields]

\* str(n) for a natural number n
Digit(d) ==
    CASE d = 0 -> "0" [] d = 1 -> "1" [] d = 2 -> "2" [] d = 3 -> "3"
      [] d = 4 -> "4" [] d = 5 -> "5" [] d = 6 -> "6" [] d = 7 -> "7"
      [] d = 8 -> "8" [] d = 9 -> "9"

RECURSIVE IntToStr(_)
IntToStr(n) == IF n < 10 THEN Digit(n) ELSE IntToStr(n \div 10) \o Digit(n % 10)

---------------------------------------------------------------------------
(* ErrorType and APIResult *)

ErrorTypeMember(value) == [k |-> "ErrorType", v |-> value]
UNAUTHORIZED == ErrorTypeMember("unauthorized")
TIMEOUT == ErrorTypeMember("timeout")
NETWORK == ErrorTypeMember("network")
SERVER_ERROR == ErrorTypeMember("server_error")
NOT_FOUND == ErrorTypeMember("not_found")
VALIDATION == ErrorTypeMember("validation")
CONFLICT == ErrorTypeMember("conflict")
UNKNOWN == ErrorTypeMember("unknown")

ErrorType == {UNAUTHORIZED, TIMEOUT, NETWORK, SERVER_ERROR, NOT_FOUND,
              VALIDATION, CONFLICT, UNKNOWN}

APIResult(ok, data, error_type, status, detail) ==
    [ok |-> ok, data |-> data, error_type |-> error_type,
     status |-> status, detail |-> detail]

---------------------------------------------------------------------------
(* The Cloud API as seen through httpx: responses and exceptions *)

\* status codes the Cloud API may answer with
StatusCodes == {200, 201, 202, 204, 302, 400, 401, 404, 409, 422, 500, 503}

\* response bodies (response.text)
EmptyText == ""
ClientsText == "[{\"code\":\"CLI001\",\"name\":\"Acme\"}]"
DetailText == "{\"detail\":\"Client already exists\"}"
DetailListText == "{\"detail\":[\"field required\"]}"
DetailNullText == "{\"detail\":null}"
NoDetailText == "{\"error\":\"boom\"}"
JsonStringText == "\"detail\""
HtmlText == "<html>Bad Gateway</html>"
EnvText == "FIELD_CODE=F1\n"

Texts == {EmptyText, ClientsText, DetailText, DetailListText, DetailNullText,
          NoDetailText, JsonStringText, HtmlText, EnvText}

Responses == [status_code : StatusCodes, text : Texts]

\* response.json(): the decoded value, or the JSONDecodeError it raises
Decoded(value) == [raised |-> FALSE, value |-> value]
JSONDecodeError == [raised |-> TRUE, value |-> None]

JsonLoads(text) ==
    CASE text = ClientsText ->
           Decoded(PyList(<<PyDict([code |-> PyStr("CLI001"), name |-> PyStr("Acme")])>>))
      [] text = DetailText ->
           Decoded(PyDict([detail |-> PyStr("Client already exists")]))
      [] text = DetailListText ->
           Decoded(PyDict([detail |-> PyList(<<PyStr("field required")>>)]))
      [] text = DetailNullText -> Decoded(PyDict([detail |-> None]))
      [] text = NoDetailText -> Decoded(PyDict([error |-> PyStr("boom")]))
      [] text = JsonStringText -> Decoded(PyStr("detail"))
      [] OTHER -> JSONDecodeError

\* the list of clients that ClientsText decodes to
ClientsValue == PyList(<<PyDict([code |-> PyStr("CLI001"), name |-> PyStr("Acme")])>>)

\* exception classes a request can raise, each with its base classes
ExcBases ==
    [ReadTimeout |-> {"ReadTimeout", "TimeoutException", "TransportError", "Exception"},
     ConnectError |-> {"ConnectError", "NetworkError", "TransportError", "Exception"},
     ReadError |-> {"ReadError", "NetworkError", "TransportError", "Exception"},
     RemoteProtocolError |-> {"RemoteProtocolError", "ProtocolError", "TransportError", "Exception"},
     TypeError |-> {"TypeError", "Exception"}]

Exceptions ==
    {[cls |-> "ReadTimeout", msg |-> "The read operation timed out"],
     [cls |-> "ConnectError", msg |-> "Connection refused"],
     [cls |-> "ReadError", msg |-> "Connection reset by peer"],
     [cls |-> "RemoteProtocolError", msg |-> "Server disconnected"],
     [cls |-> "TypeError", msg |-> "Object is not JSON serializable"]}

\* `except <bases>` matches exception e
IsInstance(e, bases) == ExcBases[e.cls] \cap bases # {}

\* outcome of one client.request(...): a response or a raised exception
Responded(response) == [k |-> "response", response |-> response]
Raised(exc) == [k |-> "raise", exc |-> exc]
Outcomes == {Responded(r) : r \in Responses} \cup {Raised(e) : e \in Exceptions}

IsTimeout(outcome) ==
    outcome.k = "raise" /\ IsInstance(outcome.exc, {"TimeoutException"})
IsNetworkFailure(outcome) ==
    outcome.k = "raise" /\ IsInstance(outcome.exc, {"NetworkError", "ConnectError"})

---------------------------------------------------------------------------
(* CloudAPIClient._make_request *)

\* faulty variant: the retry flag alone decides, whatever the method
AttemptsAnyMethod(retry, method, max_retries) ==
    IF retry THEN max_retries + 1 ELSE 1

\* number of iterations of the retry loop
Attempts(retry, method, max_retries) ==
    IF retry /\ method = "GET" THEN max_retries + 1 ELSE 1

\* faulty variant: every 2xx status counts as a success
IsSuccessAny2xx(code) == code >= 200 /\ code < 300

\* response.status_code in (200, 201, 204)
IsSuccess(code) == code \in {200, 201, 204}

\* faulty variant: 500 itself is not taken for a server error
IsServerErrorAbove500(code) == code > 500

\* response.status_code >= 500
IsServerError(code) == code >= 500

\* faulty variant: without the inner try/except a body that does not decode
\* is caught by the outer `except Exception`
SuccessResultNoInnerExcept(response) ==
    IF response.status_code = 204 \/ response.text = ""
    THEN APIResult(TRUE, None, None, PyInt(response.status_code), None)
    ELSE LET decoded == JsonLoads(response.text)
         IN  IF decoded.raised
             THEN APIResult(FALSE, None, UNKNOWN, None,
                            PyStr("Unexpected error: Expecting value"))
             ELSE APIResult(TRUE, decoded.value, None, PyInt(response.status_code), None)

\* the 200/201/204 branch, with its inner try/except
SuccessResult(response) ==
    IF response.status_code = 204 \/ response.text = ""
    THEN APIResult(TRUE, None, None, PyInt(response.status_code), None)
    ELSE LET decoded == JsonLoads(response.text)
         IN  IF decoded.raised
             THEN APIResult(TRUE, None, None, PyInt(response.status_code), None)
             ELSE APIResult(TRUE, decoded.value, None, PyInt(response.status_code), None)

\* faulty variant: the body is never consulted
ErrorDetailFixed(response, fallback) == PyStr(fallback)

\* detail of a 409/422: response.json().get("detail", fallback), or the
\* fallback when decoding or .get raises (a decoded non-dict has no .get)
ErrorDetail(response, fallback) ==
    LET decoded == JsonLoads(response.text)
    IN  IF decoded.raised \/ decoded.value.k # "dict"
        THEN PyStr(fallback)
        ELSE IF "detail" \in DOMAIN decoded.value.v
             THEN decoded.value.v.detail
             ELSE PyStr(fallback)

\* classification of a received response
HandleResponse(response) ==
    LET code == response.status_code
    IN  IF IsSuccess(code) THEN SuccessResult(response)
        ELSE IF code = 401
        THEN APIResult(FALSE, None, UNAUTHORIZED, PyInt(401),
                       PyStr("Cloud API authentication failed"))
        ELSE IF code = 404
        THEN APIResult(FALSE, None, NOT_FOUND, PyInt(404), PyStr("Resource not found"))
        ELSE IF code = 409
        THEN APIResult(FALSE, None, CONFLICT, PyInt(409),
                       ErrorDetail(response, "Conflict error"))
        ELSE IF code = 422
        THEN APIResult(FALSE, None, VALIDATION, PyInt(422),
                       ErrorDetail(response, "Validation error"))
        ELSE IF IsServerError(code)
        THEN APIResult(FALSE, None, SERVER_ERROR, PyInt(code),
                       PyStr("Cloud API server error"))
        ELSE APIResult(FALSE, None, UNKNOWN, PyInt(code),
                       PyStr("Unexpected status: " \o IntToStr(code)))

\* what one iteration of the loop ends in
Return(value) == [k |-> "return", value |-> value, slept |-> 0]
Continue == [k |-> "continue", value |-> None, slept |-> 1]
Propagate(exc) == [k |-> "propagate", value |-> None, slept |-> 0]

\* faulty variant: a timeout is reported with the status 408
OnTimeoutExceptionStatus408(i, n) ==
    IF i < n - 1
    THEN Continue
    ELSE Return(APIResult(FALSE, None, TIMEOUT, PyInt(408),
                          PyStr("Cloud API request timeout")))

\* faulty variant: the sleep comes before the test for a remaining attempt
OnTimeoutExceptionSleepFirst(i, n) ==
    IF i < n - 1
    THEN Continue
    ELSE [Return(APIResult(FALSE, None, TIMEOUT, None,
                           PyStr("Cloud API request timeout")))
            EXCEPT !.slept = 1]

\* faulty variant: a timeout is never retried
OnTimeoutExceptionNoRetry(i, n) ==
    Return(APIResult(FALSE, None, TIMEOUT, None, PyStr("Cloud API request timeout")))

\* except httpx.TimeoutException
OnTimeoutException(i, n) ==
    IF i < n - 1
    THEN Continue
    ELSE Return(APIResult(FALSE, None, TIMEOUT, None, PyStr("Cloud API request timeout")))

\* faulty variant: an exhausted connection failure is reported as a timeout
OnNetworkErrorAsTimeout(i, n) ==
    IF i < n - 1
    THEN Continue
    ELSE Return(APIResult(FALSE, None, TIMEOUT, None, PyStr("Cloud API request timeout")))

\* faulty variant: the last attempt is retried too (i <= n - 1)
OnNetworkErrorOffByOne(i, n) ==
    IF i <= n - 1
    THEN Continue
    ELSE Return(APIResult(FALSE, None, NETWORK, None, PyStr("Cloud API unavailable")))

\* except (httpx.NetworkError, httpx.ConnectError)
OnNetworkError(i, n) ==
    IF i < n - 1
    THEN Continue
    ELSE Return(APIResult(FALSE, None, NETWORK, None, PyStr("Cloud API unavailable")))

\* faulty variant: error_type is left at its default
OnExceptionNoErrorType(e) ==
    Return(APIResult(FALSE, None, None, None, PyStr("Unexpected error: " \o e.msg)))

\* except Exception as e
OnException(e) ==
    Return(APIResult(FALSE, None, UNKNOWN, None, PyStr("Unexpected error: " \o e.msg)))

\* faulty variant: there is no catch-all clause
ExceptClausesNoCatchAll(e, i, n) ==
    IF IsInstance(e, {"TimeoutException"}) THEN OnTimeoutException(i, n)
    ELSE IF IsInstance(e, {"NetworkError", "ConnectError"}) THEN OnNetworkError(i, n)
    ELSE Propagate(e)

\* faulty variant: the network clause also lists Exception
ExceptClausesRetryAny(e, i, n) ==
    IF IsInstance(e, {"TimeoutException"}) THEN OnTimeoutException(i, n)
    ELSE IF IsInstance(e, {"NetworkError", "ConnectError", "Exception"})
    THEN OnNetworkError(i, n)
    ELSE Propagate(e)

\* the except clauses, tried in order
ExceptClauses(e, i, n) ==
    IF IsInstance(e, {"TimeoutException"}) THEN OnTimeoutException(i, n)
    ELSE IF IsInstance(e, {"NetworkError", "ConnectError"}) THEN OnNetworkError(i, n)
    ELSE IF IsInstance(e, {"Exception"}) THEN OnException(e)
    ELSE Propagate(e)

\* faulty variant: a response that follows failed attempts is reported as the
\* failure of the retries
TryBodyDistrustsRetry(outcome, i, n) ==
    IF outcome.k = "response"
    THEN IF i > 0
         THEN Return(APIResult(FALSE, None, UNKNOWN, None, PyStr("Request failed after retries")))
         ELSE Return(HandleResponse(outcome.response))
    ELSE ExceptClauses(outcome.exc, i, n)

\* faulty variant: a 5xx response is retried while attempts remain
TryBodyRetryServerError(outcome, i, n) ==
    IF outcome.k = "response"
    THEN IF IsServerError(outcome.response.status_code) /\ i < n - 1
         THEN Continue
         ELSE Return(HandleResponse(outcome.response))
    ELSE ExceptClauses(outcome.exc, i, n)

\* the body of the loop: the request and the handling of its outcome
TryBody(outcome, i, n) ==
    IF outcome.k = "response"
    THEN Return(HandleResponse(outcome.response))
    ELSE ExceptClauses(outcome.exc, i, n)

\* the return after the loop
FallThroughResult ==
    APIResult(FALSE, None, UNKNOWN, None, PyStr("Request failed after retries"))

---------------------------------------------------------------------------
(* CloudAPIClient.get_field_agent_config *)

\* faulty variant: an empty text is passed on as no data
DownloadDataOrNone(text) == IF text = "" THEN None ELSE PyStr(text)

\* faulty variant: the text is decoded as JSON like the other bodies
DownloadDataDecoded(text) == JsonLoads(text).value

\* data of a successful download: response.text as it is
DownloadData(text) == PyStr(text)

\* the single attempt of the download and the handling of its outcome
DownloadBody(outcome) ==
    IF outcome.k = "response"
    THEN LET response == outcome.response
         IN  IF response.status_code = 200
             THEN Return(APIResult(TRUE, DownloadData(response.text), None, PyInt(200), None))
             ELSE IF response.status_code = 404
             THEN Return(APIResult(FALSE, None, NOT_FOUND, PyInt(404), PyStr("Config not found")))
             ELSE IF response.status_code = 401
             THEN Return(APIResult(FALSE, None, UNAUTHORIZED, PyInt(401), PyStr("Unauthorized")))
             ELSE Return(APIResult(FALSE, None, SERVER_ERROR, PyInt(response.status_code),
                                   PyStr("Failed to download config")))
    ELSE LET e == outcome.exc
         IN  IF IsInstance(e, {"TimeoutException"})
             THEN Return(APIResult(FALSE, None, TIMEOUT, None, PyStr("Request timeout")))
             ELSE IF IsInstance(e, {"NetworkError", "ConnectError"})
             THEN Return(APIResult(FALSE, None, NETWORK, None, PyStr("Network error")))
             ELSE IF IsInstance(e, {"Exception"})
             THEN Return(APIResult(FALSE, None, UNKNOWN, None, PyStr(e.msg)))
             ELSE Propagate(e)

---------------------------------------------------------------------------
(* The client instance and the inputs of its operations *)

\* base_url.rstrip('/')
RStripSlash(url) ==
    CASE url = "http://localhost:8001/" -> "http://localhost:8001"
      [] url = "http://localhost:8001//" -> "http://localhost:8001"
      [] OTHER -> url

DefaultTimeout == 10
DefaultMaxRetries == 2

\* seconds slept before a retry: time.sleep(1)
RetryDelay == 1

\* faulty variant: the token is sent without the Bearer scheme
CloudAPIClientBareToken(base_url, admin_token, timeout, max_retries) ==
    [base_url |-> RStripSlash(base_url),
     admin_token |-> admin_token,
     timeout |-> timeout,
     max_retries |-> max_retries,
     headers |-> ("Authorization" :> admin_token)
                 @@ ("Content-Type" :> "application/json")]

\* CloudAPIClient.__init__
CloudAPIClient(base_url, admin_token, timeout, max_retries) ==
    [base_url |-> RStripSlash(base_url),
     admin_token |-> admin_token,
     timeout |-> timeout,
     max_retries |-> max_retries,
     headers |-> ("Authorization" :> ("Bearer " \o admin_token))
                 @@ ("Content-Type" :> "application/json")]

\* get_cloud_api_client
get_cloud_api_client(base_url, admin_token) ==
    CloudAPIClient(base_url, admin_token, DefaultTimeout, DefaultMaxRetries)

RetryValues == (0 - NegRetriesBound) .. MaxRetriesBound

Clients ==
    {CloudAPIClient("http://localhost:8001/", "secret-token", DefaultTimeout, m) :
        m \in RetryValues}

Methods == {"GET", "POST", "PATCH", "PUT", "DELETE"}
WriteMethods == Methods \ {"GET"}

ClientCodes == {"CLI001"}
FieldCodes == {"F1"}
UserIds == {"7"}

ClientData == PyDict([code |-> PyStr("CLI001"), name |-> PyStr("Acme")])
FieldData == PyDict([client_code |-> PyStr("CLI001"), field_code |-> PyStr("F1")])
WhatsAppUserData == PyDict([display_name |-> PyStr("Ana"), field_ids |-> PyList(<<PyInt(1), PyInt(2)>>)])

\* **kwargs of client.request: json=<data>, or nothing
Kwargs(json) == [json |-> json]
NoKwargs == Kwargs(None)

---------------------------------------------------------------------------
(* State machine *)

\* no admin-ui request has been received
NoRequest == [route |-> ""]

NoCall == [op |-> "", executor |-> "", method |-> "", endpoint |-> "",
           retry |-> FALSE, kwargs |-> NoKwargs]

Init ==
    /\ self \in Clients
    /\ call = NoCall
    /\ pc = "idle"
    /\ attempts = 0
    /\ attempt = 0
    /\ log = <<>>
    /\ sleeps = 0
    /\ result = None
    /\ returns = 0
    /\ prev = <<>>
    /\ ui_request = NoRequest
    /\ invoked = <<>>
    /\ ui_response = None
    /\ banner = None
    /\ db = <<>>
    /\ now = 1
    /\ api_request = NoRequest
    /\ api_response = None

\* no operation is in progress
Callable == pc \in {"idle", "returned", "raised"}

\* the request sent by one attempt, with what came of it
Sent(method, url, headers, kwargs, outcome) ==
    [method |-> method, url |-> url, headers |-> headers, kwargs |-> kwargs,
     outcome |-> outcome]

\* faulty variant: a request without a body drops Content-Type from the
\* client's own header dict instead of from a copy
MakeRequestPopsHeader(op, method, endpoint, retry, kwargs) ==
    /\ Callable
    /\ call' = [op |-> op, executor |-> "_make_request", method |-> method,
                endpoint |-> endpoint, retry |-> retry, kwargs |-> kwargs]
    /\ attempts' = Attempts(retry, method, self.max_retries)
    /\ attempt' = 0
    /\ log' = <<>>
    /\ sleeps' = 0
    /\ result' = None
    /\ returns' = 0
    /\ pc' = "loop"
    /\ self' = IF kwargs = NoKwargs
               THEN [self EXCEPT !.headers =
                        [h \in {"Authorization"} |-> self.headers[h]]]
               ELSE self
    /\ UNCHANGED <<prev, uiVars, incidentVars>>

\* entry of _make_request: url and attempts are computed, the loop starts
MakeRequest(op, method, endpoint, retry, kwargs) ==
    /\ Callable
    /\ call' = [op |-> op, executor |-> "_make_request", method |-> method,
                endpoint |-> endpoint, retry |-> retry, kwargs |-> kwargs]
    /\ attempts' = Attempts(retry, method, self.max_retries)
    /\ attempt' = 0
    /\ log' = <<>>
    /\ sleeps' = 0
    /\ result' = None
    /\ returns' = 0
    /\ pc' = "loop"
    /\ UNCHANGED self
    /\ UNCHANGED <<prev, uiVars, incidentVars>>

\* faulty variant: a `while attempt < attempts` loop whose `continue` skips
\* the increment of attempt
RequestAttemptOnNoIncrement(outcomes) ==
    /\ pc = "loop"
    /\ attempt < attempts
    /\ \E outcome \in outcomes :
         LET step == TryBody(outcome, attempt, attempts)
         IN  /\ log' = Append(log, Sent(call.method, self.base_url \o call.endpoint,
                                        self.headers, call.kwargs, outcome))
             /\ sleeps' = sleeps + step.slept
             /\ IF step.k = "continue"
                THEN UNCHANGED <<attempt, pc, result, returns>>
                ELSE IF step.k = "return"
                THEN /\ pc' = "returned"
                     /\ result' = step.value
                     /\ returns' = returns + 1
                     /\ UNCHANGED attempt
                ELSE /\ pc' = "raised"
                     /\ UNCHANGED <<attempt, result, returns>>
    /\ UNCHANGED <<self, call, attempts>>
    /\ UNCHANGED <<prev, uiVars, incidentVars>>

\* one iteration of `for attempt in range(attempts)`, the Cloud API answering
\* with one of `outcomes`
RequestAttemptOn(outcomes) ==
    /\ pc = "loop"
    /\ attempt < attempts
    /\ \E outcome \in outcomes :
         LET step == TryBody(outcome, attempt, attempts)
         IN  /\ log' = Append(log, Sent(call.method, self.base_url \o call.endpoint,
                                        self.headers, call.kwargs, outcome))
             /\ sleeps' = sleeps + step.slept
             /\ IF step.k = "continue"
                THEN /\ attempt' = attempt + 1
                     /\ UNCHANGED <<pc, result, returns>>
                ELSE IF step.k = "return"
                THEN /\ pc' = "returned"
                     /\ result' = step.value
                     /\ returns' = returns + 1
                     /\ UNCHANGED attempt
                ELSE /\ pc' = "raised"
                     /\ UNCHANGED <<attempt, result, returns>>
    /\ UNCHANGED <<self, call, attempts>>
    /\ UNCHANGED <<prev, uiVars, incidentVars>>

RequestAttempt == RequestAttemptOn(Outcomes)

\* the loop is exhausted without a return
FallThrough ==
    /\ pc = "loop"
    /\ attempt >= attempts
    /\ pc' = "returned"
    /\ result' = FallThroughResult
    /\ returns' = returns + 1
    /\ UNCHANGED <<self, call, attempts, attempt, log, sleeps>>
    /\ UNCHANGED <<prev, uiVars, incidentVars>>

\* a direct call of the executor, with any method and retry flag
make_request ==
    \E method \in Methods, retry \in BOOLEAN :
        MakeRequest("_make_request", method, "/admin/clients", retry, NoKwargs)

get_clients == MakeRequest("get_clients", "GET", "/admin/clients", TRUE, NoKwargs)

get_fields == MakeRequest("get_fields", "GET", "/admin/fields", TRUE, NoKwargs)

get_whatsapp_users ==
    MakeRequest("get_whatsapp_users", "GET", "/admin/whatsapp-users", TRUE, NoKwargs)

get_whatsapp_user ==
    \E user_id \in UserIds :
        MakeRequest("get_whatsapp_user", "GET", "/admin/whatsapp-users/" \o user_id,
                    TRUE, NoKwargs)

create_whatsapp_user ==
    MakeRequest("create_whatsapp_user", "POST", "/admin/whatsapp-users", FALSE,
                Kwargs(WhatsAppUserData))

\* faulty variant: the update is sent as PATCH, like the other updates
update_whatsapp_user_patch ==
    \E user_id \in UserIds :
        MakeRequest("update_whatsapp_user", "PATCH", "/admin/whatsapp-users/" \o user_id,
                    FALSE, Kwargs(WhatsAppUserData))

update_whatsapp_user ==
    \E user_id \in UserIds :
        MakeRequest("update_whatsapp_user", "PUT", "/admin/whatsapp-users/" \o user_id,
                    FALSE, Kwargs(WhatsAppUserData))

delete_whatsapp_user ==
    \E user_id \in UserIds :
        MakeRequest("delete_whatsapp_user", "DELETE", "/admin/whatsapp-users/" \o user_id,
                    FALSE, NoKwargs)

get_client_detail ==
    \E client_code \in ClientCodes :
        MakeRequest("get_client_detail", "GET", "/admin/clients/" \o client_code,
                    TRUE, NoKwargs)

create_client ==
    MakeRequest("create_client", "POST", "/admin/clients", FALSE, Kwargs(ClientData))

update_client ==
    \E client_code \in ClientCodes :
        MakeRequest("update_client", "PATCH", "/admin/clients/" \o client_code,
                    FALSE, Kwargs(ClientData))

delete_client ==
    \E client_code \in ClientCodes :
        MakeRequest("delete_client", "DELETE", "/admin/clients/" \o client_code,
                    FALSE, NoKwargs)

get_field_detail ==
    \E client_code \in ClientCodes, field_code \in FieldCodes :
        MakeRequest("get_field_detail", "GET",
                    "/admin/fields/" \o client_code \o "/" \o field_code, TRUE, NoKwargs)

create_field ==
    MakeRequest("create_field", "POST", "/admin/fields", FALSE, Kwargs(FieldData))

update_field ==
    \E client_code \in ClientCodes, field_code \in FieldCodes :
        MakeRequest("update_field", "PATCH",
                    "/admin/fields/" \o client_code \o "/" \o field_code, FALSE,
                    Kwargs(FieldData))

delete_field ==
    \E client_code \in ClientCodes, field_code \in FieldCodes :
        MakeRequest("delete_field", "DELETE",
                    "/admin/fields/" \o client_code \o "/" \o field_code, FALSE, NoKwargs)

\* entry of get_field_agent_config: endpoint and url are computed
get_field_agent_config ==
    /\ Callable
    /\ \E client_code \in ClientCodes, field_code \in FieldCodes :
         call' = [op |-> "get_field_agent_config", executor |-> "get_field_agent_config",
                  method |-> "GET",
                  endpoint |-> "/admin/fields/" \o client_code \o "/" \o field_code
                               \o "/agent-config",
                  retry |-> FALSE, kwargs |-> NoKwargs]
    /\ pc' = "download"
    /\ log' = <<>>
    /\ sleeps' = 0
    /\ result' = None
    /\ returns' = 0
    /\ UNCHANGED <<self, attempts, attempt>>
    /\ UNCHANGED <<prev, uiVars, incidentVars>>

\* the client.get(url, headers=self.headers) of the download and its handling,
\* the Cloud API answering with one of `outcomes`
DownloadAttemptOn(outcomes) ==
    /\ pc = "download"
    /\ \E outcome \in outcomes :
         LET step == DownloadBody(outcome)
         IN  /\ log' = Append(log, Sent("GET", self.base_url \o call.endpoint,
                                        self.headers, NoKwargs, outcome))
             /\ IF step.k = "return"
                THEN /\ pc' = "returned"
                     /\ result' = step.value
                     /\ returns' = returns + 1
                ELSE /\ pc' = "raised"
                     /\ UNCHANGED <<result, returns>>
    /\ UNCHANGED <<self, call, attempts, attempt, sleeps>>
    /\ UNCHANGED <<prev, uiVars, incidentVars>>

DownloadAttempt == DownloadAttemptOn(Outcomes)

ReadOperation ==
    \/ get_clients
    \/ get_fields
    \/ get_whatsapp_users
    \/ get_whatsapp_user
    \/ get_client_detail
    \/ get_field_detail

WriteOperation ==
    \/ create_whatsapp_user
    \/ update_whatsapp_user
    \/ delete_whatsapp_user
    \/ create_client
    \/ update_client
    \/ delete_client
    \/ create_field
    \/ update_field
    \/ delete_field

Next ==
    \/ make_request
    \/ ReadOperation
    \/ WriteOperation
    \/ get_field_agent_config
    \/ RequestAttempt
    \/ FallThrough
    \/ DownloadAttempt

Spec == Init /\ [][Next]_vars

\* the thread that called the operation keeps running: a request that was
\* sent ends within self.timeout in a response or an exception, a sleep
\* between attempts returns, and the statement after the loop is executed
Running ==
    /\ WF_vars(RequestAttempt)
    /\ WF_vars(FallThrough)
    /\ WF_vars(DownloadAttempt)

SpecRunning == Spec /\ Running

---------------------------------------------------------------------------
(* Repeated operations: an observer remembers a finished operation and      *)
(* compares later ones with it                                              *)

\* outcomes delivered in the comparison runs: a decoded success, a server
\* error, a timeout and an exception that is no transport error
RunOutcomes ==
    {Responded([status_code |-> 200, text |-> ClientsText]),
     Responded([status_code |-> 500, text |-> HtmlText]),
     Raised([cls |-> "ReadTimeout", msg |-> "The read operation timed out"]),
     Raised([cls |-> "TypeError", msg |-> "Object is not JSON serializable"])}

\* the attempt outcomes the current operation observed, in order
Observed == [i \in 1 .. Len(log) |-> log[i].outcome]

\* a finished operation: the client it ran on, its arguments, what the
\* Cloud API delivered and what it returned
Run == [self |-> self, call |-> call, outcomes |-> Observed, result |-> result]

\* the caller takes the returned Result; the observer remembers the operation
Remember ==
    /\ pc = "returned"
    /\ prev' = <<Run>>
    /\ pc' = "idle"
    /\ UNCHANGED <<self, call, attempts, attempt, log, sleeps, result, returns>>
    /\ UNCHANGED <<uiVars, incidentVars>>

NextRuns ==
    \/ ReadOperation
    \/ WriteOperation
    \/ get_field_agent_config
    \/ RequestAttemptOn(RunOutcomes)
    \/ FallThrough
    \/ DownloadAttemptOn(RunOutcomes)
    \/ Remember

SpecRuns == Init /\ [][NextRuns]_vars

---------------------------------------------------------------------------
(* Python expressions used by the admin-ui router                           *)
(* (backend/app/admin_ui/router.py).  Texts are written in ASCII: accents   *)
(* are dropped, the symbol that opens a banner is written (!), (~), (?) or  *)
(* (x), the dash shown for a missing value is written "-".                  *)

EmptyList == PyList(<<>>)
EmptyDict == PyDict(<<>>)
PyBool(b) == [k |-> "bool", v |-> b]
PyFloat(text) == [k |-> "float", v |-> text]

\* bool(v)
Truthy(v) ==
    CASE v.k = "None" -> FALSE
      [] v.k = "str" -> v.v # ""
      [] v.k = "list" -> v.v # <<>>
      [] v.k = "dict" -> DOMAIN v.v # {}
      [] v.k = "int" -> v.v # 0
      [] v.k = "bool" -> v.v
      [] OTHER -> TRUE

\* v or default
Or(v, default) == IF Truthy(v) THEN v ELSE default

\* d.get(key, default) of a dict d
DictGet(d, key, default) == IF key \in DOMAIN d.v THEN d.v[key] ELSE default

\* d[key] = value
DictSet(d, key, value) ==
    PyDict([f \in DOMAIN d.v \cup {key} |-> IF f = key THEN value ELSE d.v[f]])

\* repr(v) and str(v), as an f-string renders a value
RECURSIVE Repr(_)
RECURSIVE ReprItems(_)
Repr(v) ==
    CASE v.k = "None" -> "None"
      [] v.k = "str" -> "'" \o v.v \o "'"
      [] v.k = "int" -> IntToStr(v.v)
      [] v.k = "bool" -> IF v.v THEN "True" ELSE "False"
      [] v.k = "float" -> v.v
      [] v.k = "list" -> "[" \o ReprItems(v.v) \o "]"

ReprItems(items) ==
    IF items = <<>> THEN ""
    ELSE IF Len(items) = 1 THEN Repr(items[1])
    ELSE Repr(items[1]) \o ", " \o ReprItems(Tail(items))

Str(v) == IF v.k = "str" THEN v.v ELSE Repr(v)

---------------------------------------------------------------------------
(* handle_api_error *)

AuthenticationText ==
    "(!) Error de autenticacion con Cloud API. Verifique el token de administrador."
UnavailableText == "(~) Cloud API no disponible. Intente nuevamente mas tarde."
NotFoundText == "(?) Recurso no encontrado."
ValidationPrefix == "(!) Error de validacion: "
ConflictPrefix == "(!) Conflicto: "
ServerErrorText == "(x) Error en el servidor. Contacte al administrador del sistema."
UnexpectedPrefix == "(!) Error inesperado: "

\* faulty variant: only a timeout counts as the service being unavailable
handle_api_error_timeout_only(error_type, detail) ==
    LET message ==
            IF error_type = UNAUTHORIZED THEN AuthenticationText
            ELSE IF error_type = TIMEOUT THEN UnavailableText
            ELSE IF error_type = NOT_FOUND THEN NotFoundText
            ELSE IF error_type = VALIDATION THEN ValidationPrefix \o Str(detail)
            ELSE IF error_type = CONFLICT THEN ConflictPrefix \o Str(detail)
            ELSE IF error_type = SERVER_ERROR THEN ServerErrorText
            ELSE UnexpectedPrefix \o Str(detail)
    IN  [message |-> [type |-> "error", text |-> message]]

\* the template context entry carrying the banner of a failed Result
handle_api_error(error_type, detail) ==
    LET message ==
            IF error_type = UNAUTHORIZED THEN AuthenticationText
            ELSE IF error_type \in {TIMEOUT, NETWORK} THEN UnavailableText
            ELSE IF error_type = NOT_FOUND THEN NotFoundText
            ELSE IF error_type = VALIDATION THEN ValidationPrefix \o Str(detail)
            ELSE IF error_type = CONFLICT THEN ConflictPrefix \o Str(detail)
            ELSE IF error_type = SERVER_ERROR THEN ServerErrorText
            ELSE UnexpectedPrefix \o Str(detail)
    IN  [message |-> [type |-> "error", text |-> message]]

\* detail values a failed Result can carry
Details ==
    {None, PyStr(""), PyStr("Client already exists"), PyStr("Resource not found"),
     PyStr("Unexpected status: 400"), PyList(<<PyStr("field required")>>)}

\* handle_api_error applied to an error kind and a detail
HandleApiError ==
    /\ \E error_type \in ErrorType, detail \in Details :
         banner' = [error_type |-> error_type, detail |-> detail,
                    value |-> handle_api_error(error_type, detail)]
    /\ UNCHANGED <<clientVars, prev, ui_request, invoked, ui_response, incidentVars>>

---------------------------------------------------------------------------
(* The admin-ui router: requests, the client it is given, responses *)

ADMIN_USERNAME == "admin"
ADMIN_PASSWORD == "admin123"

\* HTTP Basic credentials of a request; None when the header is missing
BasicCredentials(username, password) == [username |-> username, password |-> password]
Credentials ==
    {None,
     BasicCredentials(ADMIN_USERNAME, ADMIN_PASSWORD),
     BasicCredentials(ADMIN_USERNAME, "letmein"),
     BasicCredentials("root", ADMIN_PASSWORD)}

\* faulty variant: the password alone is compared
verify_admin_ui_password_only(credentials) ==
    /\ credentials # None
    /\ credentials.password = ADMIN_PASSWORD

\* verify_admin_ui lets the request through (HTTPBasic refuses a request
\* without credentials before it is called)
verify_admin_ui(credentials) ==
    /\ credentials # None
    /\ credentials.username = ADMIN_USERNAME
    /\ credentials.password = ADMIN_PASSWORD

\* get_cloud_client: a client with the default timeout and max_retries
get_cloud_client == get_cloud_api_client("http://localhost:8001", "secret-token")

\* an ok Result carrying the decoded body `data` of a 200 response
Ok200(data) == APIResult(TRUE, data, None, PyInt(200), None)

\* resources as the Cloud API lists them: a bare array, or an object
\* wrapping related collections
FieldRecord ==
    PyDict([id |-> PyInt(1), client_code |-> PyStr("CLI001"),
            field_code |-> PyStr("F1"), name |-> PyStr("Norte"),
            last_sync_at |-> PyStr("2024-01-15T15:30:00Z")])
FieldsValue == PyList(<<FieldRecord>>)
FieldsEnvelope == PyDict([fields |-> FieldsValue, clients |-> ClientsValue])
UserRecord ==
    PyDict([id |-> PyStr("7"), phone_number |-> PyStr("+56912345678"),
            created_at |-> PyStr("2024-07-01T12:00:00+00:00"),
            assigned_field_ids |-> PyList(<<PyInt(1), PyInt(9)>>)])
UsersValue == PyList(<<UserRecord>>)
UsersEnvelope == PyDict([users |-> UsersValue, fields |-> FieldsValue])
ResourceData == {FieldRecord, FieldsValue, FieldsEnvelope, UserRecord, UsersValue,
                 UsersEnvelope, EmptyList}

\* what an operation of the router's client can return: the Result of the
\* attempt that ends it, for every outcome of that attempt
ClientResults ==
    {step.value : step \in {s \in {TryBody(o, 0, 1) : o \in Outcomes} : s.k = "return"}}
    \cup {Ok200(data) : data \in ResourceData}

FailedResults == {r \in ClientResults : ~r.ok}

\* Results of the reads a handler makes besides its main operation
FollowUpResults ==
    {Ok200(data) : data \in {FieldsValue, FieldsEnvelope, UserRecord}}
    \cup {APIResult(TRUE, None, None, PyInt(204), None),
          APIResult(FALSE, None, TIMEOUT, None, PyStr("Request timeout"))}

\* one call of a client operation by a handler
Invocation(op, args, returned) == [op |-> op, args |-> args, result |-> returned]

NoContext == [request |-> "request"]
NoHeaders == [h \in {} |-> ""]

TemplateResponse(name, context) ==
    [status_code |-> 200, template |-> name, context |-> context @@ NoContext,
     location |-> "", headers |-> NoHeaders, content |-> None]

RedirectResponse(url, status_code) ==
    [status_code |-> status_code, template |-> "", context |-> NoContext,
     location |-> url, headers |-> NoHeaders, content |-> None]

PlainTextResponse(content, headers) ==
    [status_code |-> 200, template |-> "", context |-> NoContext,
     location |-> "", headers |-> headers, content |-> content]

\* HTTPException(status_code=401, headers={"WWW-Authenticate": "Basic"})
Unauthorized401 ==
    [status_code |-> 401, template |-> "", context |-> NoContext,
     location |-> "", headers |-> [h \in {"WWW-Authenticate"} |-> "Basic"],
     content |-> None]

\* an exception that leaves the handler
InternalServerError ==
    [status_code |-> 500, template |-> "", context |-> NoContext,
     location |-> "", headers |-> NoHeaders, content |-> None]

\* what a handler did: the client calls it made and its response
Handled(calls, http_response) == [invoked |-> calls, response |-> http_response]

\* the router is not answering a request
AwaitingRequest == ui_request = NoRequest

\* a request is answered: refused by the credentials check, or handled
Answer(route, credentials, path, form, handled) ==
    /\ ui_request' = [route |-> route, credentials |-> credentials,
                      path |-> path, form |-> form]
    /\ IF verify_admin_ui(credentials)
       THEN /\ invoked' = handled.invoked
            /\ ui_response' = handled.response
       ELSE /\ invoked' = <<>>
            /\ ui_response' = Unauthorized401
    /\ UNCHANGED <<clientVars, prev, banner, incidentVars>>

---------------------------------------------------------------------------
(* List routes *)

\* convert_utc_to_chile: DD/MM/YYYY HH:MM in America/Santiago
convert_utc_to_chile(iso_string) ==
    IF ~Truthy(iso_string) THEN "-"
    ELSE IF iso_string = PyStr("2024-01-15T15:30:00Z") THEN "15/01/2024 12:30"
    ELSE IF iso_string = PyStr("2024-07-01T12:00:00+00:00") THEN "01/07/2024 08:00"
    ELSE "-"

\* len(v) and `for x in v` are defined
Sized(v) == v.k \in {"list", "str", "dict"}

\* the loop adding last_sync_at_formatted to every field of a list
FormatFields(fields) ==
    IF fields.k # "list" THEN fields
    ELSE PyList([i \in DOMAIN fields.v |->
            IF fields.v[i].k = "dict" /\ "last_sync_at" \in DOMAIN fields.v[i].v
            THEN DictSet(fields.v[i], "last_sync_at_formatted",
                         PyStr(convert_utc_to_chile(fields.v[i].v.last_sync_at)))
            ELSE fields.v[i]])

\* context["clients"] of the pages that offer the clients in a form
ClientsForForm(clients_result) ==
    IF clients_result.ok
    THEN LET clients_data == Or(clients_result.data, EmptyList)
         IN  IF clients_data.k = "list" THEN clients_data
             ELSE IF clients_data.k = "dict"
             THEN DictGet(clients_data, "clients", EmptyList)
             ELSE EmptyList
    ELSE EmptyList

\* faulty variant: a failed read renders the empty page without a banner
list_clients_no_banner(returned) ==
    LET context ==
            IF returned.ok
            THEN [clients |-> Or(returned.data, EmptyList),
                  open_create_panel |-> FALSE]
            ELSE [clients |-> EmptyList, open_create_panel |-> FALSE]
    IN  Handled(<<Invocation("get_clients", <<>>, returned)>>,
                TemplateResponse("clients.html", context))

\* GET /admin-ui/clients
list_clients(returned) ==
    LET context ==
            IF returned.ok
            THEN [clients |-> Or(returned.data, EmptyList),
                  open_create_panel |-> FALSE]
            ELSE handle_api_error(returned.error_type, returned.detail)
                 @@ [clients |-> EmptyList, open_create_panel |-> FALSE]
    IN  Handled(<<Invocation("get_clients", <<>>, returned)>>,
                TemplateResponse("clients.html", context))

\* GET /admin-ui/fields
list_fields(returned, clients_result) ==
    LET calls == <<Invocation("get_fields", <<>>, returned),
                   Invocation("get_clients", <<>>, clients_result)>>
        data == Or(returned.data, EmptyList)
        listed == IF ~returned.ok THEN EmptyList
                  ELSE IF data.k = "list" THEN data
                  ELSE IF data.k = "dict" THEN DictGet(data, "fields", EmptyList)
                  ELSE EmptyList
        clients == ClientsForForm(clients_result)
        context == [fields |-> FormatFields(listed), clients |-> clients,
                    open_create_panel |-> FALSE]
    IN  IF ~Sized(listed) \/ ~Sized(clients)
        THEN Handled(IF Sized(listed) THEN calls ELSE <<calls[1]>>, InternalServerError)
        ELSE IF returned.ok
        THEN Handled(calls, TemplateResponse("fields.html", context))
        ELSE Handled(calls, TemplateResponse("fields.html",
                handle_api_error(returned.error_type, returned.detail) @@ context))

\* ', '.join(codes)
RECURSIVE JoinComma(_)
JoinComma(codes) ==
    IF codes = <<>> THEN ""
    ELSE IF Len(codes) = 1 THEN Str(codes[1])
    ELSE Str(codes[1]) \o ", " \o JoinComma(Tail(codes))

\* field_codes of a user: the field_code of every assigned id found in
\* fields_map (the last field listed under an id is the one mapped)
RECURSIVE field_codes(_, _)
field_codes(assigned_field_ids, fields) ==
    IF assigned_field_ids = <<>> THEN <<>>
    ELSE LET hits == {i \in DOMAIN fields :
                        /\ fields[i].k = "dict"
                        /\ "id" \in DOMAIN fields[i].v
                        /\ fields[i].v.id = assigned_field_ids[1]}
             last == CHOOSE i \in hits : \A j \in hits : j <= i
         IN  (IF hits = {} THEN <<>>
              ELSE <<DictGet(fields[last], "field_code", PyStr("?"))>>)
             \o field_codes(Tail(assigned_field_ids), fields)

\* the loop body of list_whatsapp_users for one user
ProcessUser(user, fields) ==
    IF user.k # "dict" THEN user
    ELSE LET dated == IF "created_at" \in DOMAIN user.v
                      THEN DictSet(user, "created_at_formatted",
                                   PyStr(convert_utc_to_chile(user.v.created_at)))
                      ELSE user
             assigned == DictGet(user, "assigned_field_ids", EmptyList)
             codes == field_codes(IF assigned.k = "list" THEN assigned.v ELSE <<>>,
                                  fields)
         IN  DictSet(DictSet(dated, "fields_count", PyInt(Len(codes))),
                     "assigned_fields_display",
                     PyStr(IF codes = <<>> THEN "-" ELSE JoinComma(codes)))

\* a user whose assigned_field_ids cannot be iterated stops the handler
UserRaises(user) ==
    user.k = "dict" /\ ~Sized(DictGet(user, "assigned_field_ids", EmptyList))

\* GET /admin-ui/whatsapp-users
list_whatsapp_users(returned, fields_result) ==
    LET calls == <<Invocation("get_whatsapp_users", <<>>, returned),
                   Invocation("get_fields", <<>>, fields_result)>>
        fields == IF fields_result.ok /\ fields_result.data.k = "list"
                  THEN fields_result.data.v ELSE <<>>
        data == Or(returned.data, EmptyList)
        listed == IF ~returned.ok THEN EmptyList
                  ELSE IF data.k = "list" THEN data
                  ELSE IF data.k = "dict" THEN DictGet(data, "users", EmptyList)
                  ELSE EmptyList
        related == IF returned.ok /\ data.k = "dict"
                   THEN DictGet(data, "fields", EmptyList) ELSE EmptyList
        users == IF listed.k = "list"
                 THEN PyList([i \in DOMAIN listed.v |-> ProcessUser(listed.v[i], fields)])
                 ELSE listed
        context == [users |-> users, fields |-> related, open_create_panel |-> FALSE]
    IN  IF \/ ~Sized(listed) \/ ~Sized(related)
           \/ (listed.k = "list" /\ \E i \in DOMAIN listed.v : UserRaises(listed.v[i]))
        THEN Handled(calls, InternalServerError)
        ELSE IF returned.ok
        THEN Handled(calls, TemplateResponse("whatsapp_users.html", context))
        ELSE Handled(calls, TemplateResponse("whatsapp_users.html",
                handle_api_error(returned.error_type, returned.detail) @@ context))

ListClientsRequest ==
    /\ AwaitingRequest
    /\ \E credentials \in Credentials, returned \in ClientResults :
        Answer("list_clients", credentials, <<>>, None, list_clients(returned))

ListFieldsRequest ==
    /\ AwaitingRequest
    /\ \E credentials \in Credentials, returned \in ClientResults,
       clients_result \in FollowUpResults :
        Answer("list_fields", credentials, <<>>, None,
               list_fields(returned, clients_result))

ListWhatsAppUsersRequest ==
    /\ AwaitingRequest
    /\ \E credentials \in Credentials, returned \in ClientResults,
       fields_result \in FollowUpResults :
        Answer("list_whatsapp_users", credentials, <<>>, None,
               list_whatsapp_users(returned, fields_result))

---------------------------------------------------------------------------
(* Form values.  A text the handler parses is kept with its characters. *)

RECURSIVE Text(_)
Text(chars) == IF chars = <<>> THEN "" ELSE chars[1] \o Text(Tail(chars))

FormStr(chars) == [k |-> "str", v |-> Text(chars), chars |-> chars]

\* text.strip()
RECURSIVE LStrip(_)
LStrip(chars) ==
    IF chars # <<>> /\ chars[1] = " " THEN LStrip(Tail(chars)) ELSE chars

RECURSIVE RStrip(_)
RStrip(chars) ==
    IF chars # <<>> /\ chars[Len(chars)] = " "
    THEN RStrip(SubSeq(chars, 1, Len(chars) - 1)) ELSE chars

Strip(chars) == RStrip(LStrip(chars))

\* text.split(",")
RECURSIVE Split(_)
Split(chars) ==
    LET commas == {i \in DOMAIN chars : chars[i] = ","}
        first == CHOOSE i \in commas : \A j \in commas : i <= j
    IN  IF commas = {} THEN <<chars>>
        ELSE <<SubSeq(chars, 1, first - 1)>>
             \o Split(SubSeq(chars, first + 1, Len(chars)))

Digits == {"0", "1", "2", "3", "4", "5", "6", "7", "8", "9"}

DigitValue(c) == CHOOSE d \in 0 .. 9 : Digit(d) = c

RECURSIVE DecimalValue(_)
DecimalValue(chars) ==
    IF chars = <<>> THEN 0
    ELSE 10 * DecimalValue(SubSeq(chars, 1, Len(chars) - 1))
         + DigitValue(chars[Len(chars)])

\* the ValueError int(text) raises
ValueError == [raised |-> TRUE, value |-> None]

\* faulty variant: a text that is not a number is taken for 0
ParseIntOrZero(chars) ==
    LET signed == chars # <<>> /\ chars[1] \in {"+", "-"}
        digits == IF signed THEN Tail(chars) ELSE chars
    IN  IF digits = <<>> \/ \E i \in DOMAIN digits : digits[i] \notin Digits
        THEN [raised |-> FALSE, value |-> PyInt(0)]
        ELSE [raised |-> FALSE,
              value |-> PyInt(IF signed /\ chars[1] = "-"
                              THEN 0 - DecimalValue(digits)
                              ELSE DecimalValue(digits))]

\* int(text) of a stripped text: the value, or ValueError
ParseInt(chars) ==
    LET signed == chars # <<>> /\ chars[1] \in {"+", "-"}
        digits == IF signed THEN Tail(chars) ELSE chars
    IN  IF digits = <<>> \/ \E i \in DOMAIN digits : digits[i] \notin Digits
        THEN ValueError
        ELSE [raised |-> FALSE,
              value |-> PyInt(IF signed /\ chars[1] = "-"
                              THEN 0 - DecimalValue(digits)
                              ELSE DecimalValue(digits))]

\* [int(fid.strip()) for fid in field_ids.split(",") if fid.strip()]
RECURSIVE ParseIds(_)
ParseIds(parts) ==
    IF parts = <<>> THEN [raised |-> FALSE, value |-> <<>>]
    ELSE LET fid == Strip(parts[1])
             rest == ParseIds(Tail(parts))
             parsed == ParseInt(fid)
         IN  IF fid = <<>> THEN rest
             ELSE IF parsed.raised \/ rest.raised THEN [raised |-> TRUE, value |-> <<>>]
             ELSE [raised |-> FALSE, value |-> <<parsed.value>> \o rest.value]

\* value if value else None
OrNone(value) == IF Truthy(value) THEN value ELSE None

\* f"...?error={detail or fallback}"
ErrorUrl(path, detail, fallback) == path \o "?error=" \o Str(Or(detail, PyStr(fallback)))

---------------------------------------------------------------------------
(* WhatsApp users: create, update, delete *)

CreateWhatsAppUserForms ==
    [phone_number : {PyStr("+56912345678")},
     display_name : {None, PyStr("Ana")},
     field_ids : {None, FormStr(<<>>), FormStr(<<"1", ",", "2">>),
                  FormStr(<<" ", "1", ",", " ", ",", "2", "1">>),
                  FormStr(<<"1", ",", "x">>)}]

\* POST /admin-ui/whatsapp-users
admin_ui_create_whatsapp_user(form, returned) ==
    LET parsed == IF Truthy(form.field_ids)
                  THEN ParseIds(Split(form.field_ids.chars))
                  ELSE [raised |-> FALSE, value |-> <<>>]
        data == PyDict([phone_number |-> form.phone_number,
                        display_name |-> OrNone(form.display_name),
                        field_ids |-> PyList(parsed.value)])
        calls == <<Invocation("create_whatsapp_user", <<data>>, returned)>>
    IN  IF parsed.raised
        THEN Handled(<<>>, RedirectResponse(
                "/admin-ui/whatsapp-users?error=IDs de campos invalidos", 303))
        ELSE IF returned.ok
        THEN Handled(calls, RedirectResponse(
                "/admin-ui/whatsapp-users?success=Usuario WhatsApp creado exitosamente",
                303))
        ELSE IF returned.error_type = CONFLICT
        THEN Handled(calls, RedirectResponse(
                ErrorUrl("/admin-ui/whatsapp-users", returned.detail,
                         "Conflicto: el usuario ya existe"), 303))
        ELSE IF returned.error_type = VALIDATION
        THEN Handled(calls, RedirectResponse(
                ErrorUrl("/admin-ui/whatsapp-users", returned.detail,
                         "Error de validacion"), 303))
        ELSE Handled(calls, RedirectResponse(
                ErrorUrl("/admin-ui/whatsapp-users", returned.detail,
                         "Error al crear usuario"), 303))

\* form_data.getlist(name), and whether the name is in the form at all
PostedValues(present, values) == [present |-> present, values |-> values]

UpdateWhatsAppUserForms ==
    [display_name : {None, PyStr("Ana")},
     is_active : {None, PyStr("true"), PyStr("on")},
     field_ids : {PostedValues(FALSE, <<>>),
                  PostedValues(TRUE, <<FormStr(<<"1", ",", "2">>)>>),
                  PostedValues(TRUE, <<FormStr(<<"1">>), FormStr(<<" ", "2">>),
                                       FormStr(<<>>)>>)}]

\* [str(fid).strip() for fid in field_ids_values if fid]
RECURSIVE StripAll(_)
StripAll(values) ==
    IF values = <<>> THEN <<>>
    ELSE (IF Truthy(values[1]) THEN <<PyStr(Text(Strip(values[1].chars)))>> ELSE <<>>)
         \o StripAll(Tail(values))

\* faulty variant: the edit page is left for the list with a success notice
\* whatever the write returned
admin_ui_update_whatsapp_user_always_success(user_id, form, returned, user_result, fields_result) ==
    LET field_ids_list == IF form.field_ids.present
                          THEN StripAll(form.field_ids.values) ELSE <<>>
        data == PyDict([display_name |-> OrNone(form.display_name),
                        is_active |-> PyBool(form.is_active = PyStr("true")),
                        field_ids |-> PyList(field_ids_list)])
    IN  Handled(<<Invocation("update_whatsapp_user", <<PyStr(user_id), data>>, returned)>>,
                RedirectResponse(
                    "/admin-ui/whatsapp-users?success=Usuario actualizado exitosamente",
                    303))

\* POST /admin-ui/whatsapp-users/{user_id}/edit
admin_ui_update_whatsapp_user(user_id, form, returned, user_result, fields_result) ==
    LET field_ids_list == IF form.field_ids.present
                          THEN StripAll(form.field_ids.values) ELSE <<>>
        data == PyDict([display_name |-> OrNone(form.display_name),
                        is_active |-> PyBool(form.is_active = PyStr("true")),
                        field_ids |-> PyList(field_ids_list)])
        write == Invocation("update_whatsapp_user", <<PyStr(user_id), data>>, returned)
        calls == <<write,
                   Invocation("get_whatsapp_user", <<PyStr(user_id)>>, user_result),
                   Invocation("get_fields", <<>>, fields_result)>>
        user_data == IF user_result.ok THEN user_result.data ELSE EmptyDict
        all_fields == IF fields_result.ok THEN fields_result.data ELSE EmptyList
    IN  IF returned.ok
        THEN Handled(<<write>>, RedirectResponse(
                "/admin-ui/whatsapp-users?success=Usuario actualizado exitosamente",
                303))
        ELSE IF user_data.k # "dict"
        THEN Handled(calls, InternalServerError)
        ELSE Handled(calls, TemplateResponse("edit_whatsapp_user.html",
                handle_api_error(returned.error_type, returned.detail)
                @@ [user |-> DictSet(DictSet(data, "id", PyStr(user_id)),
                                     "phone_number",
                                     DictGet(user_data, "phone_number", PyStr(""))),
                    available_fields |-> all_fields,
                    assigned_field_ids |-> PyList(field_ids_list)]))

\* POST /admin-ui/whatsapp-users/{user_id}/delete
admin_ui_delete_whatsapp_user(user_id, returned) ==
    LET calls == <<Invocation("delete_whatsapp_user", <<PyStr(user_id)>>, returned)>>
    IN  IF returned.ok
        THEN Handled(calls, RedirectResponse(
                "/admin-ui/whatsapp-users?success=Usuario eliminado exitosamente", 303))
        ELSE IF returned.error_type = NOT_FOUND
        THEN Handled(calls, RedirectResponse(
                "/admin-ui/whatsapp-users?error=Usuario no encontrado", 303))
        ELSE Handled(calls, RedirectResponse(
                ErrorUrl("/admin-ui/whatsapp-users", returned.detail,
                         "Error al eliminar usuario"), 303))

CreateWhatsAppUserRequest ==
    /\ AwaitingRequest
    /\ \E credentials \in Credentials, form \in CreateWhatsAppUserForms,
       returned \in ClientResults :
        Answer("create_whatsapp_user", credentials, <<>>, form,
               admin_ui_create_whatsapp_user(form, returned))

UpdateWhatsAppUserRequest ==
    /\ AwaitingRequest
    /\ \E credentials \in Credentials, user_id \in UserIds,
       form \in UpdateWhatsAppUserForms, returned \in ClientResults,
       user_result \in FollowUpResults, fields_result \in FollowUpResults :
        Answer("update_whatsapp_user", credentials, <<user_id>>, form,
               admin_ui_update_whatsapp_user(user_id, form, returned, user_result,
                                             fields_result))

DeleteWhatsAppUserRequest ==
    /\ AwaitingRequest
    /\ \E credentials \in Credentials, user_id \in UserIds, returned \in ClientResults :
        Answer("delete_whatsapp_user", credentials, <<user_id>>, None,
               admin_ui_delete_whatsapp_user(user_id, returned))

---------------------------------------------------------------------------
(* Clients: create, update, delete *)

CreateClientForms ==
    [code : {PyStr("CLI001")},
     name : {PyStr("Acme")},
     contact_email : {None, PyStr(""), PyStr("ops@acme.cl")},
     whatsapp_number : {None}]

\* POST /admin-ui/clients
admin_ui_create_client(form, returned, list_result) ==
    LET data == PyDict([code |-> form.code, name |-> form.name,
                        contact_email |-> OrNone(form.contact_email),
                        whatsapp_number |-> OrNone(form.whatsapp_number)])
        write == Invocation("create_client", <<data>>, returned)
        clients == IF list_result.ok THEN Or(list_result.data, EmptyList) ELSE EmptyList
    IN  IF returned.ok
        THEN Handled(<<write>>, RedirectResponse(
                "/admin-ui/clients?success=Cliente creado exitosamente", 303))
        ELSE Handled(<<write, Invocation("get_clients", <<>>, list_result)>>,
                TemplateResponse("clients.html",
                    [clients |-> clients]
                    @@ handle_api_error(returned.error_type, returned.detail)
                    @@ [open_create_panel |-> TRUE, form_data |-> data]))

UpdateClientForms ==
    [name : {PyStr("Acme")},
     contact_email : {None, PyStr(""), PyStr("ops@acme.cl")},
     whatsapp_number : {None, PyStr("+56911111111")}]

\* POST /admin-ui/clients/{client_code}/edit
admin_ui_update_client(client_code, form, returned, client_result) ==
    LET data == PyDict([name |-> form.name,
                        contact_email |-> OrNone(form.contact_email),
                        whatsapp_number |-> OrNone(form.whatsapp_number)])
        write == Invocation("update_client", <<PyStr(client_code), data>>, returned)
        client_data == IF client_result.ok THEN client_result.data ELSE EmptyDict
        terminology == IF client_data.k = "dict"
                       THEN DictGet(client_data, "terminology", EmptyDict)
                       ELSE EmptyDict
    IN  IF returned.ok
        THEN Handled(<<write>>, RedirectResponse(
                "/admin-ui/clients?success=Cliente actualizado exitosamente", 303))
        ELSE Handled(<<write, Invocation("get_client_detail", <<PyStr(client_code)>>,
                                         client_result)>>,
                TemplateResponse("edit_client.html",
                    handle_api_error(returned.error_type, returned.detail)
                    @@ [client |-> DictSet(data, "code", PyStr(client_code)),
                        terminology |-> terminology]))

\* POST /admin-ui/clients/{client_code}/delete
admin_ui_delete_client(client_code, returned) ==
    LET error_msg == IF returned.error_type = NOT_FOUND THEN "Cliente no encontrado"
                     ELSE IF returned.error_type = CONFLICT
                     THEN "No se puede eliminar: el cliente tiene campos asociados"
                     ELSE "No se pudo eliminar el cliente"
        calls == <<Invocation("delete_client", <<PyStr(client_code)>>, returned)>>
    IN  IF returned.ok
        THEN Handled(calls, RedirectResponse(
                "/admin-ui/clients?success=Cliente eliminado exitosamente", 303))
        ELSE Handled(calls, RedirectResponse(
                "/admin-ui/clients?error=" \o error_msg, 303))

CreateClientRequest ==
    /\ AwaitingRequest
    /\ \E credentials \in Credentials, form \in CreateClientForms,
       returned \in ClientResults, list_result \in FollowUpResults :
        Answer("create_client", credentials, <<>>, form,
               admin_ui_create_client(form, returned, list_result))

UpdateClientRequest ==
    /\ AwaitingRequest
    /\ \E credentials \in Credentials, client_code \in ClientCodes,
          form \in UpdateClientForms,
       returned \in ClientResults, client_result \in FollowUpResults :
        Answer("update_client", credentials, <<client_code>>, form,
               admin_ui_update_client(client_code, form, returned, client_result))

DeleteClientRequest ==
    /\ AwaitingRequest
    /\ \E credentials \in Credentials, client_code \in ClientCodes,
       returned \in ClientResults :
        Answer("delete_client", credentials, <<client_code>>, None,
               admin_ui_delete_client(client_code, returned))

---------------------------------------------------------------------------
(* Fields: create, update, delete *)

CreateFieldForms ==
    [client_code : {PyStr("CLI001")},
     field_code : {PyStr("F1")},
     name : {PyStr("Norte")},
     location : {None, PyStr("Maule")},
     size_ha : {None, PyFloat("12.5")},
     timezone : {PyStr("America/Santiago")}]

UpdateFieldForms ==
    [name : {PyStr("Norte")},
     location : {None, PyStr("")},
     size_ha : {PyFloat("12.5")},
     timezone : {PyStr("America/Santiago")},
     icc_username : {None, PyStr("icc")},
     icc_password : {None, PyStr(""), PyStr("s3cret")}]

\* POST /admin-ui/fields
admin_ui_create_field(form, returned, list_result, clients_result) ==
    LET data == PyDict([client_code |-> form.client_code,
                        field_code |-> form.field_code,
                        name |-> form.name,
                        location |-> OrNone(form.location),
                        size_ha |-> form.size_ha,
                        timezone |-> form.timezone])
        write == Invocation("create_field", <<data>>, returned)
        data_response == Or(list_result.data, EmptyDict)
        fields == IF ~list_result.ok THEN EmptyList
                  ELSE IF data_response.k = "list" THEN data_response
                  ELSE IF data_response.k = "dict"
                  THEN DictGet(data_response, "fields", EmptyList)
                  ELSE EmptyList
    IN  IF returned.ok
        THEN Handled(<<write>>, RedirectResponse(
                "/admin-ui/fields?success=Campo creado exitosamente", 303))
        ELSE Handled(<<write, Invocation("get_fields", <<>>, list_result),
                       Invocation("get_clients", <<>>, clients_result)>>,
                TemplateResponse("fields.html",
                    [fields |-> fields, clients |-> ClientsForForm(clients_result)]
                    @@ handle_api_error(returned.error_type, returned.detail)
                    @@ [open_create_panel |-> TRUE, form_data |-> data]))

\* POST /admin-ui/fields/{client_code}/{field_code}/edit
admin_ui_update_field(client_code, field_code, form, returned, field_result) ==
    LET base == PyDict([name |-> form.name,
                        location |-> OrNone(form.location),
                        size_ha |-> form.size_ha,
                        timezone |-> form.timezone])
        named == IF Truthy(form.icc_username)
                 THEN DictSet(base, "icc_username", form.icc_username) ELSE base
        data == IF Truthy(form.icc_password)
                THEN DictSet(named, "icc_password", form.icc_password) ELSE named
        args == <<PyStr(client_code), PyStr(field_code)>>
        write == Invocation("update_field", args \o <<data>>, returned)
        field_data == IF field_result.ok THEN field_result.data ELSE EmptyDict
        icc_credentials == IF field_data.k = "dict"
                           THEN DictGet(field_data, "icc_credentials", EmptyDict)
                           ELSE EmptyDict
        nomenclature == IF field_data.k = "dict"
                        THEN DictGet(field_data, "nomenclature", EmptyDict)
                        ELSE EmptyDict
    IN  IF returned.ok
        THEN Handled(<<write>>, RedirectResponse(
                "/admin-ui/fields?success=Campo actualizado exitosamente", 303))
        ELSE Handled(<<write, Invocation("get_field_detail", args, field_result)>>,
                TemplateResponse("edit_field.html",
                    handle_api_error(returned.error_type, returned.detail)
                    @@ [field |-> DictSet(DictSet(data, "client_code", PyStr(client_code)),
                                          "field_code", PyStr(field_code)),
                        icc_credentials |-> icc_credentials,
                        nomenclature |-> nomenclature]))

\* POST /admin-ui/fields/{client_code}/{field_code}/delete
admin_ui_delete_field(client_code, field_code, returned) ==
    LET error_msg == IF returned.error_type = NOT_FOUND THEN "Campo no encontrado"
                     ELSE IF returned.error_type = CONFLICT
                     THEN "No se puede eliminar: el campo tiene datos asociados"
                     ELSE "No se pudo eliminar el campo"
        calls == <<Invocation("delete_field", <<PyStr(client_code), PyStr(field_code)>>,
                              returned)>>
    IN  IF returned.ok
        THEN Handled(calls, RedirectResponse(
                "/admin-ui/fields?success=Campo eliminado exitosamente", 303))
        ELSE Handled(calls, RedirectResponse(
                "/admin-ui/fields?error=" \o error_msg, 303))

CreateFieldRequest ==
    /\ AwaitingRequest
    /\ \E credentials \in Credentials, form \in CreateFieldForms,
       returned \in ClientResults,
       list_result \in FollowUpResults, clients_result \in FollowUpResults :
        Answer("create_field", credentials, <<>>, form,
               admin_ui_create_field(form, returned, list_result, clients_result))

UpdateFieldRequest ==
    /\ AwaitingRequest
    /\ \E credentials \in Credentials, client_code \in ClientCodes,
       field_code \in FieldCodes, form \in UpdateFieldForms,
       returned \in ClientResults,
       field_result \in FollowUpResults :
        Answer("update_field", credentials, <<client_code, field_code>>, form,
               admin_ui_update_field(client_code, field_code, form, returned,
                                     field_result))

DeleteFieldRequest ==
    /\ AwaitingRequest
    /\ \E credentials \in Credentials, client_code \in ClientCodes,
       field_code \in FieldCodes, returned \in ClientResults :
        Answer("delete_field", credentials, <<client_code, field_code>>, None,
               admin_ui_delete_field(client_code, field_code, returned))

---------------------------------------------------------------------------
(* Edit forms and the agent-config download *)

\* faulty variant: a missing client is shown as an empty edit page with a
\* banner instead of leading back to the list
edit_client_form_no_redirect(client_code, returned) ==
    LET calls == <<Invocation("get_client_detail", <<PyStr(client_code)>>, returned)>>
        client_data == returned.data
    IN  IF ~returned.ok
        THEN Handled(calls, TemplateResponse("edit_client.html",
                handle_api_error(returned.error_type, returned.detail)
                @@ [client |-> PyDict([code |-> PyStr(client_code), name |-> PyStr("")]),
                    terminology |-> PyDict([unit_terms |-> PyStr(""),
                                            group_terms |-> PyStr(""),
                                            program_terms |-> PyStr("")])]))
        ELSE Handled(calls, TemplateResponse("edit_client.html",
                [client |-> client_data,
                 terminology |-> IF client_data.k = "dict"
                                 THEN DictGet(client_data, "terminology", EmptyDict)
                                 ELSE EmptyDict]))

\* GET /admin-ui/clients/{client_code}/edit
edit_client_form(client_code, returned) ==
    LET calls == <<Invocation("get_client_detail", <<PyStr(client_code)>>, returned)>>
        client_data == returned.data
    IN  IF ~returned.ok /\ returned.error_type = NOT_FOUND
        THEN Handled(calls, RedirectResponse(
                "/admin-ui/clients?error=Cliente no encontrado", 303))
        ELSE IF ~returned.ok
        THEN Handled(calls, TemplateResponse("edit_client.html",
                handle_api_error(returned.error_type, returned.detail)
                @@ [client |-> PyDict([code |-> PyStr(client_code), name |-> PyStr("")]),
                    terminology |-> PyDict([unit_terms |-> PyStr(""),
                                            group_terms |-> PyStr(""),
                                            program_terms |-> PyStr("")])]))
        ELSE Handled(calls, TemplateResponse("edit_client.html",
                [client |-> client_data,
                 terminology |-> IF client_data.k = "dict"
                                 THEN DictGet(client_data, "terminology", EmptyDict)
                                 ELSE EmptyDict]))

\* the placeholder field of the edit page shown when the read failed
PlaceholderField(client_code, field_code) ==
    PyDict([code |-> PyStr(field_code), name |-> PyStr(""),
            client |-> PyDict([code |-> PyStr(client_code), name |-> PyStr("")]),
            active |-> PyBool(FALSE), location_lat |-> None, location_lng |-> None,
            timezone |-> PyStr("America/Santiago")])

\* GET /admin-ui/fields/{client_code}/{field_code}/edit
edit_field_form(client_code, field_code, returned) ==
    LET calls == <<Invocation("get_field_detail",
                              <<PyStr(client_code), PyStr(field_code)>>, returned)>>
        field_data == returned.data
    IN  IF ~returned.ok /\ returned.error_type = NOT_FOUND
        THEN Handled(calls, RedirectResponse(
                "/admin-ui/fields?error=Campo no encontrado", 303))
        ELSE IF ~returned.ok
        THEN Handled(calls, TemplateResponse("edit_field.html",
                handle_api_error(returned.error_type, returned.detail)
                @@ [field |-> PlaceholderField(client_code, field_code),
                    icc_credentials |-> PyDict([host |-> PyStr(""), port |-> PyInt(5432),
                                                dbname |-> PyStr(""), user |-> PyStr("")]),
                    nomenclature |-> PyDict([aliases |-> PyStr(""),
                                             units_text |-> PyStr(""),
                                             groups_text |-> PyStr("")])]))
        ELSE Handled(calls, TemplateResponse("edit_field.html",
                [field |-> field_data,
                 icc_credentials |-> IF field_data.k = "dict"
                                     THEN DictGet(field_data, "icc_credentials", EmptyDict)
                                     ELSE EmptyDict,
                 nomenclature |-> IF field_data.k = "dict"
                                  THEN DictGet(field_data, "nomenclature", EmptyDict)
                                  ELSE EmptyDict]))

\* field.get("id") in assigned_field_ids, for a list or a dict of ids
IsAssigned(field, assigned_field_ids) ==
    LET id == DictGet(field, "id", None)
    IN  IF assigned_field_ids.k = "list"
        THEN \E i \in DOMAIN assigned_field_ids.v : assigned_field_ids.v[i] = id
        ELSE id.k = "str" /\ id.v \in DOMAIN assigned_field_ids.v

\* the copy of a field offered on the edit page: display and is_assigned added
OfferedField(field, assigned_field_ids) ==
    LET field_code == Str(DictGet(field, "field_code", PyStr("?")))
        name == Str(DictGet(field, "name", PyStr("Campo sin nombre")))
        client_code == DictGet(field, "client_code", PyStr(""))
        display == IF Truthy(client_code)
                   THEN field_code \o " - " \o name \o " (" \o Str(client_code) \o ")"
                   ELSE field_code \o " - " \o name
    IN  DictSet(DictSet(field, "display", PyStr(display)),
                "is_assigned", PyBool(IsAssigned(field, assigned_field_ids)))

\* the dict items of a list, each as OfferedField
RECURSIVE processed_fields(_, _)
processed_fields(fields, assigned_field_ids) ==
    IF fields = <<>> THEN <<>>
    ELSE (IF fields[1].k = "dict"
          THEN <<OfferedField(fields[1], assigned_field_ids)>> ELSE <<>>)
         \o processed_fields(Tail(fields), assigned_field_ids)

\* GET /admin-ui/whatsapp-users/{user_id}/edit
edit_whatsapp_user_form(user_id, user_result, fields_result) ==
    LET calls == <<Invocation("get_whatsapp_user", <<PyStr(user_id)>>, user_result),
                   Invocation("get_fields", <<>>, fields_result)>>
        user_data == user_result.data
        all_fields == IF fields_result.ok THEN fields_result.data ELSE EmptyList
        assigned_field_ids ==
            IF user_data.k = "dict"
            THEN DictGet(user_data, "assigned_field_ids",
                         DictGet(user_data, "field_ids", EmptyList))
            ELSE EmptyList
        offered == IF all_fields.k = "list" THEN all_fields.v ELSE <<>>
    IN  IF ~user_result.ok /\ user_result.error_type = NOT_FOUND
        THEN Handled(calls, RedirectResponse(
                "/admin-ui/whatsapp-users?error=Usuario no encontrado", 303))
        ELSE IF ~user_result.ok
        THEN Handled(calls, TemplateResponse("edit_whatsapp_user.html",
                handle_api_error(user_result.error_type, user_result.detail)
                @@ [user |-> None, available_fields |-> EmptyList]))
        ELSE IF /\ assigned_field_ids.k \notin {"list", "dict"}
                /\ \E i \in DOMAIN offered : offered[i].k = "dict"
        THEN Handled(calls, InternalServerError)
        ELSE Handled(calls, TemplateResponse("edit_whatsapp_user.html",
                [user |-> user_data,
                 available_fields |-> PyList(processed_fields(offered, assigned_field_ids)),
                 assigned_field_ids |-> assigned_field_ids]))

\* what get_field_agent_config can return: the Result of its one request
DownloadResults ==
    {step.value : step \in {s \in {DownloadBody(o) : o \in Outcomes} : s.k = "return"}}

\* GET /admin-ui/fields/{client_code}/{field_code}/config
download_field_config(client_code, field_code, returned) ==
    LET calls == <<Invocation("get_field_agent_config",
                              <<PyStr(client_code), PyStr(field_code)>>, returned)>>
        error_msg == IF returned.error_type = NOT_FOUND
                     THEN "Configuracion no encontrada"
                     ELSE "No se pudo descargar la configuracion"
        filename == client_code \o "_" \o field_code \o ".env"
    IN  IF ~returned.ok
        THEN Handled(calls, RedirectResponse("/admin-ui/fields?error=" \o error_msg, 303))
        ELSE Handled(calls, PlainTextResponse(returned.data,
                [h \in {"Content-Disposition"} |-> "attachment; filename=" \o filename]))

EditClientFormRequest ==
    /\ AwaitingRequest
    /\ \E credentials \in Credentials, client_code \in ClientCodes,
          returned \in ClientResults :
        Answer("edit_client_form", credentials, <<client_code>>, None,
               edit_client_form(client_code, returned))

EditFieldFormRequest ==
    /\ AwaitingRequest
    /\ \E credentials \in Credentials, client_code \in ClientCodes,
          field_code \in FieldCodes, returned \in ClientResults :
        Answer("edit_field_form", credentials, <<client_code, field_code>>, None,
               edit_field_form(client_code, field_code, returned))

EditWhatsAppUserFormRequest ==
    /\ AwaitingRequest
    /\ \E credentials \in Credentials, user_id \in UserIds,
          user_result \in ClientResults, fields_result \in FollowUpResults :
        Answer("edit_whatsapp_user_form", credentials, <<user_id>>, None,
               edit_whatsapp_user_form(user_id, user_result, fields_result))

DownloadFieldConfigRequest ==
    /\ AwaitingRequest
    /\ \E credentials \in Credentials, client_code \in ClientCodes,
          field_code \in FieldCodes, returned \in DownloadResults :
        Answer("download_field_config", credentials, <<client_code, field_code>>, None,
               download_field_config(client_code, field_code, returned))

---------------------------------------------------------------------------
(* The router as a state machine: a request is answered by its handler, the *)
(* response is sent and nothing of the request is kept                      *)

\* the response has been sent
ResponseSent ==
    /\ ui_request # NoRequest
    /\ ui_request' = NoRequest
    /\ invoked' = <<>>
    /\ ui_response' = None
    /\ UNCHANGED <<clientVars, prev, banner, incidentVars>>

ListRequest ==
    \/ ListClientsRequest
    \/ ListFieldsRequest
    \/ ListWhatsAppUsersRequest

WriteRequest ==
    \/ CreateWhatsAppUserRequest
    \/ UpdateWhatsAppUserRequest
    \/ DeleteWhatsAppUserRequest
    \/ CreateClientRequest
    \/ UpdateClientRequest
    \/ DeleteClientRequest
    \/ CreateFieldRequest
    \/ UpdateFieldRequest
    \/ DeleteFieldRequest

EditRequest ==
    \/ EditClientFormRequest
    \/ EditFieldFormRequest
    \/ EditWhatsAppUserFormRequest

NextRoutes ==
    \/ ListRequest
    \/ WriteRequest
    \/ EditRequest
    \/ DownloadFieldConfigRequest
    \/ ResponseSent

\* the client the router works with is the one get_cloud_client builds
InitRoutes == Init /\ self = get_cloud_client

SpecRoutes == InitRoutes /\ [][NextRoutes]_vars

\* handle_api_error on its own, applied to every error kind and detail
SpecBanner == Init /\ [][HandleApiError]_vars

---------------------------------------------------------------------------
(* The incidents API (backend/app/api/incidents.py) and its table          *)
(* (backend/app/models/incident.py).  Requests are those that passed the   *)
(* dependencies get_db and get_current_user.  The columns project,         *)
(* category and description are stored as received and left out.          *)

\* a datetime; those a request carries lie before every reading of the clock
PyDatetime(t) == [k |-> "datetime", v |-> t]

\* a field the request body does not carry (model_dump(exclude_unset=True)
\* leaves it out)
Unset == [k |-> "unset"]

\* the values of status the handlers accept
IncidentStatuses == {"open", "in_progress", "resolved"}

\* an uploaded file of the form, by what upload_file does with it: no file,
\* a stored file and its URL, HTTPException 413, or another exception
Uploads ==
    {[k |-> "none"],
     [k |-> "stored", url |-> "/uploads/a.jpg"],
     [k |-> "HTTPException", status_code |-> 413],
     [k |-> "Exception"]}

\* Incident(...): a new row with the defaults of its columns
Incident(status, image_url, video_url, utcnow) ==
    [status |-> PyStr(status), image_url |-> image_url, video_url |-> video_url,
     internal_comment |-> None, created_at |-> PyDatetime(utcnow),
     resolved_at |-> None]

\* what a handler comes to: the status code of the response and the table
\* after it
Responds(status_code, rows) == [status_code |-> status_code, db |-> rows]

\* the URL an upload returned, None without a file
UrlOf(upload) == IF upload.k = "stored" THEN PyStr(upload.url) ELSE None

\* create_incident.  Its parameter `status` hides fastapi.status, so
\* status.HTTP_400_BAD_REQUEST and status.HTTP_500_INTERNAL_SERVER_ERROR
\* raise AttributeError there: the server answers 500.
create_incident_handler(rows, status, image, video, utcnow) ==
    IF status \notin IncidentStatuses THEN Responds(500, rows)
    ELSE IF image.k = "HTTPException" THEN Responds(image.status_code, rows)
    ELSE IF image.k = "Exception" THEN Responds(500, rows)
    ELSE IF video.k = "HTTPException" THEN Responds(video.status_code, rows)
    ELSE IF video.k = "Exception" THEN Responds(500, rows)
    ELSE Responds(201, Append(rows, Incident(status, UrlOf(image), UrlOf(video), utcnow)))

\* IncidentUpdate: the bodies that pass validation
IsValidUpdate(body) ==
    body.status \in {Unset, None} \/ body.status.v \in IncidentStatuses

\* incident_update.<field>: None when the body does not set it
Field(body, field) == IF body[field] = Unset THEN None ELSE body[field]

\* for field, value in update_data.items(): setattr(incident, field, value)
SetAttrs(incident, body) ==
    [column \in DOMAIN incident |->
        IF column \in DOMAIN body /\ body[column] # Unset
        THEN body[column]
        ELSE incident[column]]

\* Auto-set resolved_at if status changes to resolved
AutoResolvedAt(incident, body, utcnow) ==
    IF Field(body, "status") = PyStr("resolved") /\ ~Truthy(incident.resolved_at)
    THEN [incident EXCEPT !.resolved_at = PyDatetime(utcnow)]
    ELSE incident

\* update_incident; db.commit() fails when status, a column that is not
\* nullable, was set to None
update_incident_handler(rows, incident_id, body, utcnow) ==
    IF ~IsValidUpdate(body) THEN Responds(422, rows)
    ELSE IF incident_id \notin 1 .. Len(rows) THEN Responds(404, rows)
    ELSE LET incident == AutoResolvedAt(SetAttrs(rows[incident_id], body), body, utcnow)
         IN  IF incident.status # None
             THEN Responds(200, [rows EXCEPT ![incident_id] = incident])
             ELSE Responds(500, rows)

\* the form of a create request: status (default "open")
CreateStatuses == IncidentStatuses \cup {"closed"}

\* the bodies of update requests
UpdateBodies ==
    [status : {Unset, None} \cup {PyStr(v) : v \in CreateStatuses},
     internal_comment : {Unset, PyStr("visto")},
     resolved_at : {Unset, None, PyDatetime(0)}]

\* POST /incidents
create_incident ==
    /\ now < MaxClock
    /\ Len(db) < MaxIncidents
    /\ \E status \in CreateStatuses, image \in Uploads, video \in Uploads :
         LET handled == create_incident_handler(db, status, image, video, now)
         IN  /\ api_request' = [route |-> "create_incident", incident_id |-> 0,
                                body |-> [status |-> PyStr(status)]]
             /\ api_response' = [status_code |-> handled.status_code]
             /\ db' = handled.db
    /\ now' = now + 1
    /\ UNCHANGED <<clientVars, prev, uiVars>>

\* PATCH /incidents/{incident_id}
update_incident ==
    /\ now < MaxClock
    /\ \E incident_id \in 1 .. MaxIncidents, body \in UpdateBodies :
         LET handled == update_incident_handler(db, incident_id, body, now)
         IN  /\ api_request' = [route |-> "update_incident",
                                incident_id |-> incident_id, body |-> body]
             /\ api_response' = [status_code |-> handled.status_code]
             /\ db' = handled.db
    /\ now' = now + 1
    /\ UNCHANGED <<clientVars, prev, uiVars>>

NextIncidents ==
    \/ create_incident
    \/ update_incident

\* the application as started, with the client get_cloud_client builds
SpecIncidents == InitRoutes /\ [][NextIncidents]_vars

---------------------------------------------------------------------------
(* Properties *)

\* shorthands used by the properties below
Finished == pc = "returned"
ViaExecutor == call.executor = "_make_request"
RetryableGet == ViaExecutor /\ call.retry /\ call.method = "GET"
Attempted == log # <<>>
LastOutcome == log[Len(log)].outcome
GotResponse == Attempted /\ LastOutcome.k = "response"
LastCode == LastOutcome.response.status_code
LastText == LastOutcome.response.text

\* C1: a write (POST, PATCH, PUT or DELETE through the executor, named
\* operation or direct call, retry flag set or not) makes exactly one outbound
\* attempt: none is pending once it is made, and it has ended with one made.
C1_WriteSingleAttempt ==
    (ViaExecutor /\ call.method \in WriteMethods) =>
        /\ Len(log) <= 1
        /\ (pc = "loop" => Len(log) = 0)
        /\ (pc \in {"returned", "raised"} => Len(log) = 1)

C1_Witness ==
    /\ Finished /\ ViaExecutor
    /\ call.method = "DELETE" /\ call.retry
    /\ self.max_retries = 2
    /\ Len(log) = 1 /\ IsTimeout(log[1].outcome)
    /\ result.error_type = TIMEOUT

\* C2: a retryable GET whose attempts all time out ends after exactly
\* max_retries + 1 attempts with ok false, error_type Timeout, status absent.
C2_TimeoutExhaustsRetries ==
    (Finished /\ RetryableGet /\ Attempted
       /\ \A i \in 1 .. Len(log) : IsTimeout(log[i].outcome)) =>
        /\ Len(log) = self.max_retries + 1
        /\ result.ok = FALSE
        /\ result.error_type = TIMEOUT
        /\ result.status = None

C2_Witness ==
    /\ Finished /\ RetryableGet
    /\ self.max_retries = 2
    /\ Len(log) = 3
    /\ \A i \in 1 .. 3 : IsTimeout(log[i].outcome)
    /\ result.error_type = TIMEOUT /\ result.status = None

\* C3: in every Result returned by an operation (executor or download),
\* ok is true exactly when error_type is absent.
C3_OkIffNoErrorType ==
    Finished => (result.ok <=> result.error_type = None)

C3_Witness ==
    /\ Finished /\ ViaExecutor
    /\ Attempted /\ LastOutcome.k = "raise"
    /\ ~IsTimeout(LastOutcome) /\ ~IsNetworkFailure(LastOutcome)
    /\ result.ok = FALSE /\ result.error_type = UNKNOWN

\* C4: every attempt that is followed by another one ended in a timeout or a
\* connection-level failure; an attempt that received a response (5xx
\* included) is the last one and the operation has returned its classification.
C4_ResponseEndsOperation ==
    ViaExecutor =>
        /\ \A i \in 1 .. Len(log) - 1 :
              IsTimeout(log[i].outcome) \/ IsNetworkFailure(log[i].outcome)
        /\ GotResponse => (Finished /\ result.status = PyInt(LastCode))

C4_Witness ==
    /\ Finished /\ RetryableGet
    /\ self.max_retries = 2
    /\ Len(log) = 1 /\ GotResponse /\ LastCode = 503
    /\ result.error_type = SERVER_ERROR

\* C5: no exception leaves an operation, and an operation that has ended has
\* returned exactly one Result (none while it is still running).
C5_ExactlyOneResult ==
    /\ pc # "raised"
    /\ (pc \in {"loop", "download"} => returns = 0 /\ result = None)
    /\ (Finished => returns = 1 /\ result # None /\ result.ok \in BOOLEAN)

C5_Witness ==
    /\ Finished /\ returns = 1
    /\ Attempted /\ LastOutcome.k = "raise" /\ LastOutcome.exc.cls = "TypeError"
    /\ result.error_type = UNKNOWN

\* C6: a response of the executor with a status other than 200, 201, 204
\* gives ok false, the received status, and 401 -> Unauthorized,
\* 404 -> NotFound, 409 -> Conflict, 422 -> Validation, >= 500 -> ServerError,
\* anything else -> Unknown with the status code spelled out in detail.
C6_StatusMapping ==
    (Finished /\ ViaExecutor /\ GotResponse /\ LastCode \notin {200, 201, 204}) =>
        /\ result.ok = FALSE
        /\ result.status = PyInt(LastCode)
        /\ result.data = None
        /\ result.error_type =
              CASE LastCode = 401 -> UNAUTHORIZED
                [] LastCode = 404 -> NOT_FOUND
                [] LastCode = 409 -> CONFLICT
                [] LastCode = 422 -> VALIDATION
                [] LastCode \notin {401, 404, 409, 422} /\ LastCode >= 500 -> SERVER_ERROR
                [] OTHER -> UNKNOWN
        /\ (LastCode = 202 => result.detail = PyStr("Unexpected status: 202"))
        /\ (LastCode = 302 => result.detail = PyStr("Unexpected status: 302"))
        /\ (LastCode = 400 => result.detail = PyStr("Unexpected status: 400"))

C6_Witness ==
    /\ Finished /\ ViaExecutor /\ GotResponse
    /\ LastCode = 500
    /\ result.error_type = SERVER_ERROR /\ result.status = PyInt(500)

\* C7 as stated: status 200, 201, 204, or any other 2xx with an empty body,
\* gives ok true; data is the decoded body when the body is non-empty, absent
\* otherwise.
C7_Original ==
    (Finished /\ ViaExecutor /\ GotResponse
       /\ (LastCode \in {200, 201, 204}
             \/ (LastCode >= 200 /\ LastCode < 300 /\ LastText = ""))) =>
        /\ result.ok = TRUE
        /\ (LastText = "" => result.data = None)
        /\ (LastText = ClientsText => result.data = ClientsValue)

\* C7 as amended: status 200, 201 or 204 gives ok true with the received
\* status and no error_type; data is the decoded body when the status is 200
\* or 201 and the body is non-empty and decodes as JSON, and absent otherwise
\* (204, empty body, body that is not JSON).  Any other 2xx status is not a
\* success, whatever its body: ok false, error_type Unknown.
C7_SuccessStatuses ==
    (Finished /\ ViaExecutor /\ GotResponse) =>
        /\ LastCode \in {200, 201, 204} =>
              /\ result.ok = TRUE
              /\ result.error_type = None
              /\ result.status = PyInt(LastCode)
              /\ result.data =
                    CASE LastCode = 204 -> None
                      [] LastCode # 204 /\ LastText = ClientsText -> ClientsValue
                      [] LastCode # 204 /\ LastText = DetailText ->
                           PyDict([detail |-> PyStr("Client already exists")])
                      [] LastCode # 204 /\ LastText = DetailListText ->
                           PyDict([detail |-> PyList(<<PyStr("field required")>>)])
                      [] LastCode # 204 /\ LastText = DetailNullText ->
                           PyDict([detail |-> None])
                      [] LastCode # 204 /\ LastText = NoDetailText ->
                           PyDict([error |-> PyStr("boom")])
                      [] LastCode # 204 /\ LastText = JsonStringText -> PyStr("detail")
                      [] OTHER -> None
        /\ (LastCode >= 200 /\ LastCode < 300 /\ LastCode \notin {200, 201, 204}) =>
              /\ result.ok = FALSE
              /\ result.error_type = UNKNOWN

C7_Witness ==
    /\ Finished /\ ViaExecutor /\ call.op = "get_clients"
    /\ GotResponse /\ LastCode = 200 /\ LastText = ClientsText
    /\ result.ok = TRUE /\ result.data = ClientsValue

\* C8: for a 409 (422) response the error_type is Conflict (Validation) and
\* detail is the value of the body's `detail` field when the body is a JSON
\* object holding one, and "Conflict error" ("Validation error") when the
\* body is empty, not JSON, a JSON value that is no object, or an object
\* without `detail`.
C8_ConflictValidationDetail ==
    (Finished /\ ViaExecutor /\ GotResponse /\ LastCode \in {409, 422}) =>
        LET fallback == IF LastCode = 409 THEN "Conflict error" ELSE "Validation error"
        IN  /\ result.error_type = (IF LastCode = 409 THEN CONFLICT ELSE VALIDATION)
            /\ result.ok = FALSE
            /\ result.detail =
                  CASE LastText = DetailText -> PyStr("Client already exists")
                    [] LastText = DetailListText -> PyList(<<PyStr("field required")>>)
                    [] LastText = DetailNullText -> None
                    [] OTHER -> PyStr(fallback)

C8_Witness ==
    /\ Finished /\ call.op = "create_client"
    /\ GotResponse /\ LastCode = 409 /\ LastText = DetailText
    /\ result.error_type = CONFLICT
    /\ result.detail = PyStr("Client already exists")

\* C9: a retryable GET whose attempts all fail to connect ends after exactly
\* max_retries + 1 attempts with ok false, error_type Network, status absent.
C9_NetworkExhaustsRetries ==
    (Finished /\ RetryableGet /\ Attempted
       /\ \A i \in 1 .. Len(log) : IsNetworkFailure(log[i].outcome)) =>
        /\ Len(log) = self.max_retries + 1
        /\ result.ok = FALSE
        /\ result.error_type = NETWORK
        /\ result.status = None

C9_Witness ==
    /\ Finished /\ RetryableGet
    /\ self.max_retries = 2
    /\ Len(log) = 3
    /\ \A i \in 1 .. 3 : IsNetworkFailure(log[i].outcome)
    /\ result.error_type = NETWORK /\ result.status = None

\* C10: an attempt of the executor that raises anything but a timeout or a
\* connection-level failure is the last one: the operation has returned
\* ok false, error_type Unknown, status absent, with the exception's message
\* in detail, also for a retryable GET with retries left.
C10_UnexpectedExceptionEnds ==
    (ViaExecutor /\ Attempted /\ LastOutcome.k = "raise"
       /\ ~IsTimeout(LastOutcome) /\ ~IsNetworkFailure(LastOutcome)) =>
        /\ Finished
        /\ result.ok = FALSE
        /\ result.error_type = UNKNOWN
        /\ result.status = None
        /\ result.data = None
        /\ result.detail = PyStr("Unexpected error: " \o LastOutcome.exc.msg)

C10_Witness ==
    /\ Finished /\ RetryableGet
    /\ self.max_retries = 2
    /\ Len(log) = 2 /\ IsTimeout(log[1].outcome)
    /\ LastOutcome.k = "raise" /\ LastOutcome.exc.cls = "RemoteProtocolError"
    /\ result.detail = PyStr("Unexpected error: Server disconnected")

\* C11 as stated: status is absent exactly when the failure was a timeout or
\* a connection failure, so a Result without status has error_type Timeout
\* or Network.
C11_Original ==
    Finished =>
        /\ result.status = None <=>
              (Attempted /\ (IsTimeout(LastOutcome) \/ IsNetworkFailure(LastOutcome)))
        /\ result.status = None => result.error_type \in {TIMEOUT, NETWORK}

\* C11 as amended: status is absent exactly when the operation ended without a
\* received response (a timeout, a connection failure, any other exception,
\* or no attempt at all); such a Result is a failure with error_type Timeout,
\* Network or Unknown, Timeout and Network standing for exactly those two
\* failures, and a Result built from a response carries that response's status.
C11_StatusAbsentIffNoResponse ==
    Finished =>
        /\ result.status = None <=> ~GotResponse
        /\ GotResponse => result.status = PyInt(LastCode)
        /\ result.status = None =>
              /\ result.ok = FALSE
              /\ result.error_type \in {TIMEOUT, NETWORK, UNKNOWN}
              /\ result.error_type = TIMEOUT <=> (Attempted /\ IsTimeout(LastOutcome))
              /\ result.error_type = NETWORK <=>
                    (Attempted /\ IsNetworkFailure(LastOutcome))

C11_Witness ==
    /\ Finished /\ call.executor = "get_field_agent_config"
    /\ Attempted /\ LastOutcome.k = "raise" /\ LastOutcome.exc.cls = "RemoteProtocolError"
    /\ result.status = None /\ result.error_type = UNKNOWN

\* C12 as stated: data is present only on a success whose response carried a
\* non-empty body; failures and successes on an empty body have no data.
C12_Original ==
    Finished =>
        /\ result.data # None => (result.ok /\ GotResponse /\ LastText # "")
        /\ result.ok = FALSE => result.data = None
        /\ (result.ok /\ GotResponse /\ LastText = "") => result.data = None

\* C12 as amended: data is present only when ok is true; every failed Result
\* has data absent; a success of the executor on an empty body has data
\* absent, and its data, when present, comes from a non-empty body.  A
\* successful agent-config download always carries the response text as data,
\* the empty string for an empty body.
C12_DataOnlyOnSuccess ==
    Finished =>
        /\ result.data # None => (result.ok /\ GotResponse)
        /\ result.ok = FALSE => result.data = None
        /\ ViaExecutor =>
              /\ result.data # None => LastText # ""
              /\ (result.ok /\ LastText = "") => result.data = None
        /\ (call.executor = "get_field_agent_config" /\ result.ok) =>
              result.data = PyStr(LastText)

C12_Witness ==
    /\ Finished /\ call.executor = "get_field_agent_config"
    /\ GotResponse /\ LastCode = 200 /\ LastText = ""
    /\ result.ok /\ result.data = PyStr("")

\* C13: the agent-config download makes exactly one attempt and classifies
\* 200 -> ok with the raw text as data, 401 -> Unauthorized, 404 -> NotFound,
\* any other status -> ServerError, timeout -> Timeout and connection
\* failure -> Network, both without status.
C13_DownloadClassification ==
    call.executor = "get_field_agent_config" =>
        /\ Len(log) <= 1
        /\ (pc = "download" <=> Len(log) = 0)
        /\ sleeps = 0
        /\ Finished =>
              /\ GotResponse =>
                    /\ result.status = PyInt(LastCode)
                    /\ LastCode = 200 =>
                          /\ result.ok = TRUE
                          /\ result.error_type = None
                          /\ LastText = EnvText =>
                                result.data = PyStr("FIELD_CODE=F1\n")
                          /\ LastText = ClientsText =>
                                result.data = PyStr("[{\"code\":\"CLI001\",\"name\":\"Acme\"}]")
                    /\ LastCode # 200 =>
                          /\ result.ok = FALSE
                          /\ result.data = None
                          /\ result.error_type =
                                CASE LastCode = 401 -> UNAUTHORIZED
                                  [] LastCode = 404 -> NOT_FOUND
                                  [] OTHER -> SERVER_ERROR
              /\ IsTimeout(LastOutcome) =>
                    result.error_type = TIMEOUT /\ result.status = None
              /\ IsNetworkFailure(LastOutcome) =>
                    result.error_type = NETWORK /\ result.status = None

C13_Witness ==
    /\ Finished /\ call.executor = "get_field_agent_config"
    /\ self.max_retries = 2
    /\ Len(log) = 1 /\ GotResponse /\ LastCode = 409
    /\ result.error_type = SERVER_ERROR /\ result.status = PyInt(409)

\* C14 as stated: every attempt carries Authorization: Bearer <token>, and
\* Content-Type: application/json except the attempts of the agent-config
\* download, which carry no Content-Type.
C14_Original ==
    \A i \in 1 .. Len(log) :
        /\ log[i].headers["Authorization"] = "Bearer " \o self.admin_token
        /\ ViaExecutor => log[i].headers["Content-Type"] = "application/json"
        /\ call.executor = "get_field_agent_config" =>
              "Content-Type" \notin DOMAIN log[i].headers

\* C14 as amended: every attempt of every operation, the agent-config
\* download included, carries both Authorization: Bearer <token> and
\* Content-Type: application/json.
C14_HeadersOnEveryAttempt ==
    \A i \in 1 .. Len(log) :
        /\ DOMAIN log[i].headers = {"Authorization", "Content-Type"}
        /\ log[i].headers["Authorization"] = "Bearer " \o self.admin_token
        /\ log[i].headers["Authorization"] = "Bearer secret-token"
        /\ log[i].headers["Content-Type"] = "application/json"

C14_Witness ==
    /\ Finished /\ call.executor = "get_field_agent_config"
    /\ Len(log) = 1
    /\ log[1].headers["Authorization"] = "Bearer secret-token"
    /\ log[1].headers["Content-Type"] = "application/json"

\* C15: each named operation hands the executor the method, path and retry
\* flag of the catalogue, and every request it sends has that method and the
\* base URL followed by that path.
C15_Catalogue ==
    (ViaExecutor /\ call.op # "_make_request") =>
        LET row ==
              CASE call.op = "get_clients" -> <<"GET", "/admin/clients", TRUE>>
                [] call.op = "get_client_detail" -> <<"GET", "/admin/clients/CLI001", TRUE>>
                [] call.op = "create_client" -> <<"POST", "/admin/clients", FALSE>>
                [] call.op = "update_client" -> <<"PATCH", "/admin/clients/CLI001", FALSE>>
                [] call.op = "delete_client" -> <<"DELETE", "/admin/clients/CLI001", FALSE>>
                [] call.op = "get_fields" -> <<"GET", "/admin/fields", TRUE>>
                [] call.op = "get_field_detail" -> <<"GET", "/admin/fields/CLI001/F1", TRUE>>
                [] call.op = "create_field" -> <<"POST", "/admin/fields", FALSE>>
                [] call.op = "update_field" -> <<"PATCH", "/admin/fields/CLI001/F1", FALSE>>
                [] call.op = "delete_field" -> <<"DELETE", "/admin/fields/CLI001/F1", FALSE>>
                [] call.op = "get_whatsapp_users" -> <<"GET", "/admin/whatsapp-users", TRUE>>
                [] call.op = "get_whatsapp_user" -> <<"GET", "/admin/whatsapp-users/7", TRUE>>
                [] call.op = "create_whatsapp_user" ->
                     <<"POST", "/admin/whatsapp-users", FALSE>>
                [] call.op = "update_whatsapp_user" ->
                     <<"PUT", "/admin/whatsapp-users/7", FALSE>>
                [] call.op = "delete_whatsapp_user" ->
                     <<"DELETE", "/admin/whatsapp-users/7", FALSE>>
        IN  /\ call.method = row[1]
            /\ call.endpoint = row[2]
            /\ call.retry = row[3]
            /\ \A i \in 1 .. Len(log) :
                  /\ log[i].method = row[1]
                  /\ log[i].url = "http://localhost:8001" \o row[2]

C15_Witness ==
    /\ Finished /\ call.op = "update_whatsapp_user"
    /\ Len(log) = 1
    /\ log[1].method = "PUT"
    /\ log[1].url = "http://localhost:8001/admin/whatsapp-users/7"
    /\ call.retry = FALSE

\* worst-case time spent so far by the operation: every attempt made may
\* last up to the timeout, every sleep lasts the retry delay
WorstCaseElapsed == Len(log) * self.timeout + sleeps * RetryDelay

\* C16: the executor sleeps once after each attempt that is followed by
\* another one and at no other time: an operation that has made n >= 1
\* attempts has slept n - 1 times when it ends (n times while the next
\* attempt is pending), so its time is at most
\* (max_retries + 1) * timeout + max_retries * delay for a retried read, and
\* an operation that ends after a single attempt has not slept.
C16_SleepBetweenAttempts ==
    Attempted =>
        /\ pc = "loop" => sleeps = Len(log)
        /\ pc # "loop" => sleeps = Len(log) - 1
        /\ (Finished /\ Len(log) = 1) => sleeps = 0
        /\ RetryableGet =>
              /\ sleeps <= self.max_retries
              /\ WorstCaseElapsed <=
                    (self.max_retries + 1) * self.timeout + self.max_retries * RetryDelay
        /\ ~RetryableGet => WorstCaseElapsed <= self.timeout

C16_Witness ==
    /\ Finished /\ RetryableGet
    /\ self.max_retries = 2
    /\ Len(log) = 3 /\ sleeps = 2
    /\ IsTimeout(log[1].outcome) /\ IsNetworkFailure(log[2].outcome)
    /\ WorstCaseElapsed = 32

\* C17: an operation is a function of its inputs and of the attempt outcomes
\* it observes: when an operation has finished and an earlier operation on a
\* client of equal configuration, with equal arguments, observed the same
\* outcomes in the same order, the two Results are equal (a repeated
\* successful GET returns the same data); and no step of any operation changes
\* the client's configuration (base URL, token, timeout, max_retries, headers).
C17_Deterministic ==
    /\ []((/\ Finished
           /\ prev # <<>>
           /\ prev[1].self = self
           /\ prev[1].call = call
           /\ prev[1].outcomes = Observed) => result = prev[1].result)
    /\ [][self' = self]_vars

\* a GET that succeeded after a retried timeout is repeated with the same
\* outcomes and has returned the decoded list again
C17_Witness ==
    /\ Finished
    /\ prev # <<>>
    /\ prev[1].call = call
    /\ prev[1].outcomes = Observed
    /\ call.op = "get_clients"
    /\ Len(log) = 2
    /\ result.ok
    /\ result.data = ClientsValue

---------------------------------------------------------------------------
(* Properties of the admin-ui router *)

\* the message category of each error kind
Category(error_type) ==
    CASE error_type = UNAUTHORIZED -> "authentication problem"
      [] error_type \in {TIMEOUT, NETWORK} -> "service unavailable"
      [] error_type = NOT_FOUND -> "not found"
      [] error_type = VALIDATION -> "bad input"
      [] error_type = CONFLICT -> "conflicting state"
      [] error_type = SERVER_ERROR -> "server fault"
      [] error_type = UNKNOWN -> "unspecified fault"

Categories == {Category(error_type) : error_type \in ErrorType}

\* the text by which a banner of a category is recognised, for a detail
CategoryText(category, detail) ==
    CASE category = "authentication problem" -> AuthenticationText
      [] category = "service unavailable" -> UnavailableText
      [] category = "not found" -> NotFoundText
      [] category = "bad input" -> ValidationPrefix \o Str(detail)
      [] category = "conflicting state" -> ConflictPrefix \o Str(detail)
      [] category = "server fault" -> ServerErrorText
      [] category = "unspecified fault" -> UnexpectedPrefix \o Str(detail)

\* the banner `message` is the error banner of `error_type`, and of no other
\* category
IsBannerOf(message, error_type, detail) ==
    /\ message.type = "error"
    /\ \A category \in Categories :
         message.text = CategoryText(category, detail) <=> category = Category(error_type)

BannerApplied == "value" \in DOMAIN banner

\* C18: the value of handle_api_error carries a message of type "error" whose
\* category is the one of the error kind (Unauthorized: authentication problem;
\* Timeout, Network: service unavailable; NotFound: not found; Validation: bad
\* input; Conflict: conflicting state; ServerError: server fault; Unknown:
\* unspecified fault), whatever the detail is.
C18_MessageCategory ==
    BannerApplied =>
        /\ DOMAIN banner.value = {"message"}
        /\ IsBannerOf(banner.value.message, banner.error_type, banner.detail)

C18_Witness ==
    /\ BannerApplied
    /\ banner.error_type = NETWORK
    /\ banner.detail = PyList(<<PyStr("field required")>>)
    /\ banner.value.message.text = UnavailableText

\* the request being answered passed the credentials check of its route
Authorized(routes) ==
    /\ ui_request.route \in routes
    /\ verify_admin_ui(ui_request.credentials)

ListRoutes == {"list_clients", "list_fields", "list_whatsapp_users"}

\* per list route: the primary list operation, the page and its resource list
PrimaryOperation ==
    [list_clients |-> "get_clients", list_fields |-> "get_fields",
     list_whatsapp_users |-> "get_whatsapp_users"]
ListPage ==
    [list_clients |-> "clients.html", list_fields |-> "fields.html",
     list_whatsapp_users |-> "whatsapp_users.html"]
ResourceList(route, context) ==
    CASE route = "list_clients" -> context.clients
      [] route = "list_fields" -> context.fields
      [] route = "list_whatsapp_users" -> context.users

\* C19: a list route requested with valid credentials calls its primary list
\* operation first; when that returns a failed Result, of whatever error kind,
\* the response is 200, the page is rendered with an empty resource list and
\* carries the error banner of that kind; when it returns an ok Result the
\* response carries no banner.
C19_ListRouteFailure ==
    Authorized(ListRoutes) =>
        LET route == ui_request.route
            primary == invoked[1]
            context == ui_response.context
        IN  /\ primary.op = PrimaryOperation[route]
            /\ ~primary.result.ok =>
                   /\ ui_response.status_code = 200
                   /\ ui_response.template = ListPage[route]
                   /\ ResourceList(route, context) = EmptyList
                   /\ "message" \in DOMAIN context
                   /\ IsBannerOf(context.message, primary.result.error_type,
                                 primary.result.detail)
            /\ primary.result.ok => "message" \notin DOMAIN context

\* the fields list failed with a 500 while the clients for the form arrived
C19_Witness ==
    /\ Authorized({"list_fields"})
    /\ invoked[1].result.error_type = SERVER_ERROR
    /\ invoked[2].result.ok
    /\ ui_response.status_code = 200
    /\ ui_response.context.fields = EmptyList
    /\ ui_response.context.message.text = ServerErrorText

\* per create, update and delete route: the client write operation and the
\* path of the resource list
WriteOperationOf ==
    [create_whatsapp_user |-> "create_whatsapp_user",
     update_whatsapp_user |-> "update_whatsapp_user",
     delete_whatsapp_user |-> "delete_whatsapp_user",
     create_client |-> "create_client", update_client |-> "update_client",
     delete_client |-> "delete_client",
     create_field |-> "create_field", update_field |-> "update_field",
     delete_field |-> "delete_field"]
WriteRoutes == DOMAIN WriteOperationOf
ClientWrites == {WriteOperationOf[route] : route \in WriteRoutes}
ListPath(route) ==
    IF route \in {"create_client", "update_client", "delete_client"}
    THEN "/admin-ui/clients"
    ELSE IF route \in {"create_field", "update_field", "delete_field"}
    THEN "/admin-ui/fields"
    ELSE "/admin-ui/whatsapp-users"

SuccessNotices ==
    {"Usuario WhatsApp creado exitosamente", "Usuario actualizado exitosamente",
     "Usuario eliminado exitosamente", "Cliente creado exitosamente",
     "Cliente actualizado exitosamente", "Cliente eliminado exitosamente",
     "Campo creado exitosamente", "Campo actualizado exitosamente",
     "Campo eliminado exitosamente"}

\* the response is a redirect to `path` carrying success=<notice>
SuccessRedirect(path) ==
    /\ ui_response.status_code = 303
    /\ \E notice \in SuccessNotices :
         ui_response.location = path \o "?success=" \o notice

\* the handler called the write operation of its route first and no write
\* operation after it; a failed write is never answered with success=
WroteOnce(route) ==
    /\ invoked # <<>>
    /\ invoked[1].op = WriteOperationOf[route]
    /\ \A i \in 2 .. Len(invoked) : invoked[i].op \notin ClientWrites
    /\ invoked[1].result.ok => SuccessRedirect(ListPath(route))
    /\ ~invoked[1].result.ok =>
           \A written \in WriteRoutes : ~SuccessRedirect(ListPath(written))

\* C20 as stated: every request to a create, update or delete route with
\* valid credentials invokes the write operation of the route exactly once.
C20_Original ==
    Authorized(WriteRoutes) => WroteOnce(ui_request.route)

\* the create form of a WhatsApp user lists field ids that are not integers
FieldIdsRejected ==
    /\ ui_request.route = "create_whatsapp_user"
    /\ Truthy(ui_request.form.field_ids)
    /\ ParseIds(Split(ui_request.form.field_ids.chars)).raised

\* C20: a request to a create, update or delete route with valid credentials
\* invokes the write operation of the route exactly once, an ok Result is
\* answered with a 303 redirect to the resource list carrying success=, a
\* failed Result never is, and whatever the handler calls after a failed
\* write is a read; except that a WhatsApp-user create request whose field_ids
\* has an entry that is not an integer is answered with a 303 redirect
\* carrying error= without any client operation being invoked.
C20_WriteOnce ==
    Authorized(WriteRoutes) =>
        IF FieldIdsRejected
        THEN /\ invoked = <<>>
             /\ ui_response.status_code = 303
             /\ ui_response.location =
                    "/admin-ui/whatsapp-users?error=IDs de campos invalidos"
        ELSE WroteOnce(ui_request.route)

\* creating a field failed with a conflict: the page is rendered again after
\* two reads
C20_Witness ==
    /\ Authorized({"create_field"})
    /\ Len(invoked) = 3
    /\ invoked[1].result.error_type = CONFLICT
    /\ invoked[2].op = "get_fields"
    /\ invoked[3].op = "get_clients"
    /\ ui_response.status_code = 200

EditRoutes == {"edit_client_form", "edit_field_form", "edit_whatsapp_user_form"}

\* per edit-form route: the detail read, the page, the list it belongs to and
\* the context entry holding the record
DetailOperation ==
    [edit_client_form |-> "get_client_detail", edit_field_form |-> "get_field_detail",
     edit_whatsapp_user_form |-> "get_whatsapp_user"]
EditPage ==
    [edit_client_form |-> "edit_client.html", edit_field_form |-> "edit_field.html",
     edit_whatsapp_user_form |-> "edit_whatsapp_user.html"]
EditListPath ==
    [edit_client_form |-> "/admin-ui/clients", edit_field_form |-> "/admin-ui/fields",
     edit_whatsapp_user_form |-> "/admin-ui/whatsapp-users"]
EditedRecord(route, context) ==
    CASE route = "edit_client_form" -> context.client
      [] route = "edit_field_form" -> context.field
      [] route = "edit_whatsapp_user_form" -> context.user

NotFoundNotices == {"Cliente no encontrado", "Campo no encontrado", "Usuario no encontrado"}

\* C21: an edit-form route requested with valid credentials reads the record
\* first; a NotFound Result is answered with a 303 redirect to the resource
\* list carrying error=, a failed Result of any other kind with the 200 edit
\* page carrying the banner of that kind, an ok Result with the 200 edit page
\* holding the fetched record and no banner.
C21_EditForm ==
    Authorized(EditRoutes) =>
        LET route == ui_request.route
            read == invoked[1]
            context == ui_response.context
        IN  /\ read.op = DetailOperation[route]
            /\ (~read.result.ok /\ read.result.error_type = NOT_FOUND) =>
                   /\ ui_response.status_code = 303
                   /\ \E notice \in NotFoundNotices :
                        ui_response.location = EditListPath[route] \o "?error=" \o notice
            /\ (~read.result.ok /\ read.result.error_type # NOT_FOUND) =>
                   /\ ui_response.status_code = 200
                   /\ ui_response.template = EditPage[route]
                   /\ "message" \in DOMAIN context
                   /\ IsBannerOf(context.message, read.result.error_type,
                                 read.result.detail)
            /\ read.result.ok =>
                   /\ ui_response.status_code = 200
                   /\ ui_response.template = EditPage[route]
                   /\ EditedRecord(route, context) = read.result.data
                   /\ "message" \notin DOMAIN context

\* the user to edit is gone: the browser is sent back to the list
C21_Witness ==
    /\ Authorized({"edit_whatsapp_user_form"})
    /\ invoked[1].result.error_type = NOT_FOUND
    /\ Len(invoked) = 2
    /\ ui_response.status_code = 303
    /\ ui_response.location = "/admin-ui/whatsapp-users?error=Usuario no encontrado"

\* the request carries the configured admin pair
ValidCredentials ==
    ui_request.credentials = BasicCredentials(ADMIN_USERNAME, ADMIN_PASSWORD)

\* C22: a request to any admin-ui route that carries no credentials, or a
\* username or password other than the configured admin pair, is answered
\* 401 with a WWW-Authenticate header, and no client operation is invoked.
C22_Unauthorized ==
    (~AwaitingRequest /\ ~ValidCredentials) =>
        /\ ui_response.status_code = 401
        /\ "WWW-Authenticate" \in DOMAIN ui_response.headers
        /\ invoked = <<>>

\* the right password under another username, on a route that writes
C22_Witness ==
    /\ ui_request.route = "delete_client"
    /\ ui_request.credentials = BasicCredentials("root", ADMIN_PASSWORD)
    /\ ui_response.status_code = 401
    /\ invoked = <<>>

\* the client calls of the handler that are writes
WritesInvoked == {i \in DOMAIN invoked : invoked[i].op \in ClientWrites}

\* C23: the WhatsApp-user edit form submitted with the field_ids value "1,2"
\* invokes update_whatsapp_user exactly once, with the user id and a payload
\* whose field_ids is the list of integers [1, 2], display_name as submitted
\* and is_active true iff the form value is "true".
C23_PayloadIntegers ==
    (/\ Authorized({"update_whatsapp_user"})
     /\ ui_request.form.field_ids = PostedValues(TRUE, <<FormStr(<<"1", ",", "2">>)>>)) =>
        /\ WritesInvoked = {1}
        /\ invoked[1].op = "update_whatsapp_user"
        /\ invoked[1].args =
               <<PyStr(ui_request.path[1]),
                 PyDict([display_name |-> OrNone(ui_request.form.display_name),
                         is_active |-> PyBool(ui_request.form.is_active = PyStr("true")),
                         field_ids |-> PyList(<<PyInt(1), PyInt(2)>>)])>>

\* the ids a field_ids text of the create form stands for: the integers
\* between the commas, blank entries skipped
ExpectedIds(field_ids) ==
    CASE field_ids = None -> <<>>
      [] field_ids = FormStr(<<>>) -> <<>>
      [] field_ids = FormStr(<<"1", ",", "2">>) -> <<PyInt(1), PyInt(2)>>
      [] field_ids = FormStr(<<" ", "1", ",", " ", ",", "2", "1">>) ->
           <<PyInt(1), PyInt(21)>>

\* field_ids texts with an entry that is not an integer
NotIntegerIds == {FormStr(<<"1", ",", "x">>)}

\* C24: the WhatsApp-user create route passes to create_whatsapp_user, as
\* field_ids, the list of the integers of the comma-separated form value
\* (blank entries skipped, the empty list for an empty or missing value); when
\* an entry is not an integer it redirects 303 with error= and invokes no
\* client operation.
C24_CreateFieldIds ==
    Authorized({"create_whatsapp_user"}) =>
        IF ui_request.form.field_ids \in NotIntegerIds
        THEN /\ invoked = <<>>
             /\ ui_response.status_code = 303
             /\ ui_response.location =
                    "/admin-ui/whatsapp-users?error=IDs de campos invalidos"
        ELSE /\ Len(invoked) = 1
             /\ invoked[1].op = "create_whatsapp_user"
             /\ Len(invoked[1].args) = 1
             /\ invoked[1].args[1].v.field_ids =
                    PyList(ExpectedIds(ui_request.form.field_ids))
             /\ invoked[1].args[1].v.phone_number = ui_request.form.phone_number

\* " 1, ,21" was posted: the blank entry is skipped, 1 and 21 are passed
C24_Witness ==
    /\ Authorized({"create_whatsapp_user"})
    /\ ui_request.form.field_ids = FormStr(<<" ", "1", ",", " ", ",", "2", "1">>)
    /\ Len(invoked) = 1
    /\ invoked[1].args[1].v.field_ids = PyList(<<PyInt(1), PyInt(21)>>)


---------------------------------------------------------------------------
(* Retries with mixed failures *)

\* the attempt was a transient failure: a timeout or a connection failure
IsTransient(outcome) == IsTimeout(outcome) \/ IsNetworkFailure(outcome)

\* some earlier attempt failed in the other way than the last one
MixedFailures ==
    /\ Len(log) >= 2
    /\ \A i \in 1 .. Len(log) : IsTransient(log[i].outcome)
    /\ \E i \in 1 .. Len(log) - 1 :
          IsTimeout(log[i].outcome) # IsTimeout(LastOutcome)

\* C25: when the attempts of a retryable GET all fail with timeouts and
\* connection failures, the Result is the one the last failure alone gives:
\* Timeout if the last attempt timed out, Network if it failed to connect,
\* with nothing in it that depends on the earlier failures.
C25_LastFailureDecides ==
    (Finished /\ RetryableGet /\ Attempted
       /\ \A i \in 1 .. Len(log) : IsTransient(log[i].outcome)) =>
        /\ IsTimeout(LastOutcome) =>
              result = APIResult(FALSE, None, TIMEOUT, None,
                                 PyStr("Cloud API request timeout"))
        /\ ~IsTimeout(LastOutcome) =>
              result = APIResult(FALSE, None, NETWORK, None,
                                 PyStr("Cloud API unavailable"))

C25_Witness ==
    /\ Finished /\ RetryableGet
    /\ MixedFailures
    /\ IsTimeout(log[1].outcome)
    /\ IsNetworkFailure(LastOutcome)
    /\ result.error_type = NETWORK

\* C26: a retryable GET that receives a response on attempt k after k - 1
\* transient failures, k <= max_retries + 1, returns exactly the
\* classification of that response, and exactly k attempts were made.
C26_ResponseAfterFailures ==
    (/\ RetryableGet /\ Attempted
     /\ pc \in {"returned", "raised"}
     /\ LastOutcome.k = "response"
     /\ \A i \in 1 .. Len(log) - 1 : IsTransient(log[i].outcome)) =>
        /\ Finished
        /\ result = HandleResponse(LastOutcome.response)
        /\ attempt = Len(log) - 1
        /\ Len(log) <= self.max_retries + 1
        /\ returns = 1

C26_Witness ==
    /\ Finished /\ RetryableGet
    /\ Len(log) = 3
    /\ IsTimeout(log[1].outcome)
    /\ IsNetworkFailure(log[2].outcome)
    /\ LastOutcome.k = "response"
    /\ result = HandleResponse(LastOutcome.response)
    /\ result.ok = FALSE


---------------------------------------------------------------------------
(* The loop and its fall-through *)

\* C27: whatever max_retries the client was built with (zero and negative
\* values included), an operation that returned has made at least one
\* attempt, and the Result returned is not the fall-through Result (Unknown,
\* "Request failed after retries") that follows the loop.
C27_AlwaysAttempts ==
    Finished =>
        /\ Attempted
        /\ result # FallThroughResult


\* the operation was called and has not returned yet
InProgress == pc \in {"loop", "download"}

\* the attempts claimed for the operation: max_retries + 1 for a retryable
\* GET, one otherwise
ClaimedAttemptBound == IF RetryableGet THEN self.max_retries + 1 ELSE 1

\* the attempts the operation may make: range(attempts) is empty when
\* attempts is negative
AttemptBound == IF ClaimedAttemptBound < 0 THEN 0 ELSE ClaimedAttemptBound

---------------------------------------------------------------------------
(* Bodies of successful responses *)

\* the body of the last response is not JSON
Undecodable == JsonLoads(LastText).raised

\* C29: the executor answers a 200 or 201 response whose non-empty body does
\* not decode as JSON with ok true, data absent and the status received (no
\* error_type, no Unknown), and a 204 response with data absent whatever its
\* body is.
C29_UndecodableSuccess ==
    (Finished /\ ViaExecutor /\ GotResponse) =>
        /\ (LastCode \in {200, 201} /\ LastText # "" /\ Undecodable) =>
              result = APIResult(TRUE, None, None, PyInt(LastCode), None)
        /\ LastCode = 204 =>
              result = APIResult(TRUE, None, None, PyInt(204), None)

C29_Witness ==
    /\ Finished /\ ViaExecutor /\ GotResponse
    /\ LastCode = 201
    /\ LastText = HtmlText
    /\ Undecodable
    /\ result.ok /\ result.data = None /\ result.status = PyInt(201)

\* a 204 response that carries a body that would decode
C29_WitnessNoContent ==
    /\ Finished /\ ViaExecutor /\ GotResponse
    /\ LastCode = 204
    /\ LastText = ClientsText
    /\ result.ok /\ result.data = None


---------------------------------------------------------------------------
(* Incidents *)

\* stored incidents
StoredIds == 1 .. Len(db)

\* every stored incident whose status is "resolved" has resolved_at set
ResolvedHaveResolvedAt ==
    \A i \in StoredIds :
        db[i].status = PyStr("resolved") => db[i].resolved_at # None

\* a resolved_at that is set changes only by an update request that carries
\* resolved_at itself: the automatic stamp never replaces it
StampKeepsResolvedAt ==
    \A i \in StoredIds :
        (db[i].resolved_at # None /\ db'[i].resolved_at # db[i].resolved_at) =>
            /\ api_request'.route = "update_incident"
            /\ api_request'.incident_id = i
            /\ api_request'.body.resolved_at # Unset

C30_StampNeverOverwrites == [][StampKeepsResolvedAt]_vars

\* C30: after any sequence of create_incident and update_incident requests
\* every stored incident whose status is "resolved" has resolved_at set, and
\* the automatic stamping of update_incident never overwrites a resolved_at
\* that is already set.
C30_ResolvedAtInvariant ==
    /\ []ResolvedHaveResolvedAt
    /\ [][StampKeepsResolvedAt]_vars

====
